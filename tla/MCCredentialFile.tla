-------------------------- MODULE MCCredentialFile --------------------------
(***************************************************************************)
(* The provider of a credential file on its own, alone or behind a member  *)
(* that has no header to give.                                             *)
(***************************************************************************)
EXTENDS CredentialFile

TwoChains == {<<"file">>, <<"mute", "file">>}
=============================================================================
