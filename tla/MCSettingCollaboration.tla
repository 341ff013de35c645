------------------------ MODULE MCSettingCollaboration ------------------------
(* SettingCollaboration for TLC: requests and messages are interchangeable.  *)
EXTENDS SettingCollaboration, TLC

MCScopes == Existing \cup {Collection}
Symmetry == Permutations(Workers) \cup Permutations(Messages)
=============================================================================
