---------------------------- MODULE MCImportJobs ----------------------------
(* Two imports: of one upload, or one of an upload and one of an artifact.   *)
EXTENDS ImportJobs, TLC

CONSTANTS j1, j2

UploadTwins == Permutations({j1, j2})
=============================================================================
