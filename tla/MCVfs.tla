-------------------------------- MODULE MCVfs --------------------------------
(* Contents of one sector and of three, which are cut to two; new files are empty. *)
EXTENDS Vfs

MCContents == {<<"p">>, <<"q", "q", "q">>}
MCWelcomeText == <<"p">>
=============================================================================
