----------------------------- MODULE MCArchive ------------------------------
(* Instances of Archive for TLC.  The workers are alike, and so are the    *)
(* users and the company names.                                            *)
EXTENDS Archive, TLC

AllOps ==
  {"SEARCH", "LIST_COMPANIES", "DOWNLOAD", "UPLOAD", "NEW_COMPANY",
   "REMOVE_COMPANY", "REMOVE_DOCUMENT"}

Alike == Permutations(Handler) \cup Permutations(User) \cup Permutations(Name)
=============================================================================
