-------------------------- MODULE MCReleasePipeline --------------------------
(***************************************************************************)
(* Small instances of ReleasePipeline.                                     *)
(***************************************************************************)
EXTENDS ReleasePipeline, TLC

CONSTANTS r1, r2

MCRows == {r1, r2}
Symmetric == Permutations(MCRows)

\* Docker commands that go on after their connection is lost.
DockerCommands ==
    {"stopP", "renameP", "compose", "stopC", "quarantine", "nameP", "startP"}
\* The helper that seeds the volume, in its two steps.
SeedCommands == {"seedUnlink", "seedReplace"}

Either == BOOLEAN
Always == {TRUE}
Never == {FALSE}

=============================================================================
