------------------------------- MODULE MCShell -------------------------------
(* A row holds a prompt of one character, a line of three and the cursor. *)
EXTENDS Shell

MCPrompt == <<"$">>
MCChars == {"a", Blank}
MCCommands == {<<"a", "a", "a">>}
MCFiles == {<<"a">>}
MCClear == <<"a", "a", "a">>
MCOutputs == {<<>>, <<"o", "o", "o", "o", "o", "o">>}
=============================================================================
