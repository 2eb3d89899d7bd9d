-------------------------- MODULE MCGitHubCollection --------------------------
EXTENDS GitHubCollection

(* One repository starts with two pull requests, the other with one that   *)
(* is joined by a second or updated while it is collected.                 *)
MCLegacy == <<2, 1>>

=============================================================================
