--------------------------- MODULE MCConversation ---------------------------
(***************************************************************************)
(* Conversation for TLC: histories of up to five messages.                 *)
(***************************************************************************)
EXTENDS Conversation

SomeWords == {"a", "b", " ", "img", "be", "brief", "json", "no json"}

ThreeSystems == {NoSystem, <<<<>>>>, <<<<"be">>, <<"brief">>>>}

T(words) == Block("text", words, NoId)
I(words) == Block("image", words, NoId)
U(id, args) == Block("tool_use", args, id)

SomeSays ==
  {Said("user", "text", <<T(<<"a">>)>>), Said("user", "text", <<T(<<>>)>>),
   Said("user", "blocks", <<T(<<" ">>)>>), Said("user", "blocks", <<>>),
   Said("user", "blocks", <<T(<<"a">>), I(<<"img">>), T(<<"b">>)>>),
   Said("user", "blocks", <<I(<<>>), T(<<"b">>), T(<<"a">>)>>)}

SomeAsides == {<<>>, <<"b">>}

R(text, calls, finish) == [content |-> Text(text), calls |-> calls, finish |-> finish]
C(id, args) == [id |-> id, args |-> args]

SomeReplies ==
  {R(<<"a">>, <<>>, "stop"), R(<<>>, <<>>, "length"),
   R(<<>>, <<C("x", <<"json">>)>>, "tool_calls"),
   R(<<"b">>, <<C("x", <<"no json">>), C("y", <<"json">>)>>, "tool_calls")}

SomeStreams ==
  {<<>>, <<T(<<"a">>), U("x", <<"json">>), T(<<"b">>)>>,
   <<U("y", <<"{}">>), U("x", <<"json">>)>>, <<Block("thinking", <<>>, NoId), T(<<"b">>)>>}
=============================================================================
