-------------------------- MODULE MCReleaseScripts --------------------------
(* The checkout that TLC runs: a source file (src), a file of runtime data *)
(* the managed block covers (data), a file a rule of REVIEW_RULES rejects, *)
(* which neither that block nor the list of verify-toolkit-zip has (env, a *)
(* .npmrc), and the placeholder (keep).                                    *)
EXTENDS ReleaseScripts
=============================================================================
