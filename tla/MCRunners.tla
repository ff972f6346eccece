----------------------------- MODULE MCRunners -----------------------------
(* Two runners for the Docker executor; for the subprocess executor one job    *)
(* and an archive with run.sh, another file and a link.                        *)
EXTENDS Runners

CONSTANTS script, file, link

MCEntry == {script, file, link}
MCLink == {link}
=============================================================================
