----------------------------- MODULE RunnerCache -----------------------------
(* The subprocess executor: the cached runner (internal/runner/manager.go,    *)
(* extract.go) that a start verifies or downloads, and the workspaces the     *)
(* workers link it into (worker.go).  Files outlive the daemon; the daemon    *)
(* may end between any two steps.                                             *)
EXTENDS Naturals

CONSTANTS
    Entry,       \* the files and links in the archive of the latest release
    RunScript,   \* run.sh, one of them
    Link,        \* those that are links: making one fails where a file exists
    Job          \* runner names, each used once

RunnerCacheAssumption ==
    RunScript \in Entry /\ Link \subseteq Entry

VARIABLES
    daemon,      \* where Manager.RunnerDir is; "serving" once it has returned
    checksum,    \* what latestRelease found: "known" or "unknown"
    tarball,     \* the temporary file: "none", "good" or "bad" (cut short)
    tree,        \* the version's directory, per entry
    sha,         \* its .sha256 file: "none", "torn" or "right"
    done,        \* the entries this extraction has come to
    work,        \* where Worker.Run is, for each job
    copied,      \* the entries in each workspace
    calm         \* from now on nothing fails or interrupts a start

cacheVars == <<tarball, tree, sha, done>>
jobVars == <<work, copied>>
vars == <<daemon, checksum, cacheVars, jobVars, calm>>

(* The daemon ends; its children's workspaces stay behind.                    *)
Exit ==
    /\ daemon' = "down"
    /\ work' = [j \in Job |->
                   IF work[j] \in {"copying", "running", "removing"} THEN "orphan" ELSE work[j]]
    /\ UNCHANGED <<checksum, tree, sha, done, copied, calm>>

Init ==
    /\ daemon = "down" /\ checksum = "unknown"
    /\ tarball = "none" /\ sha = "none" /\ done = {}
    /\ tree = [e \in Entry |-> "absent"]
    /\ work = [j \in Job |-> "idle"]
    /\ copied = [j \in Job |-> {}]
    /\ calm = FALSE

-----------------------------------------------------------------------------
(* Manager.RunnerDir                                                          *)
Step(from, to) == daemon = from /\ daemon' = to
Idle == UNCHANGED <<jobVars, calm>>

Start ==
    /\ Step("down", "release")
    /\ Idle /\ UNCHANGED <<checksum, cacheVars>>

(* A release without a checksum file, or whose checksum cannot be fetched, is *)
(* used all the same.                                                         *)
LatestRelease ==
    /\ Step("release", "verify")
    /\ checksum' \in {"known", "unknown"}
    /\ Idle /\ UNCHANGED cacheVars

Cached ==
    /\ tree[RunScript] # "absent"
    /\ checksum = "known" => sha = "right"

Verify ==
    /\ daemon = "verify"
    /\ daemon' = IF Cached THEN "serving" ELSE "fetch"
    /\ Idle /\ UNCHANGED <<checksum, cacheVars>>

(* The body is cut at 500 MB without an error.                                *)
Fetch ==
    /\ Step("fetch", "compare")
    /\ tarball' = "good" \/ (~calm /\ tarball' = "bad")
    /\ done' = {}
    /\ Idle /\ UNCHANGED <<checksum, tree, sha>>

ExtractOverOld == \* wrong: does not remove the old directory
    /\ Step("compare", "extract")
    /\ checksum = "known" => tarball = "good"
    /\ Idle /\ UNCHANGED <<checksum, cacheVars>>

Compare ==
    /\ Step("compare", "clear")
    /\ checksum = "known" => tarball = "good"
    /\ Idle /\ UNCHANGED <<checksum, cacheVars>>

(* os.RemoveAll, file by file; its error is ignored.                          *)
Clear ==
    /\ daemon = "clear"
    /\ \/ /\ \E e \in Entry : /\ tree[e] # "absent"
                              /\ tree' = [tree EXCEPT ![e] = "absent"]
          /\ UNCHANGED <<daemon, sha>>
       \/ /\ sha # "none" /\ sha' = "none"
          /\ UNCHANGED <<daemon, tree>>
       \/ /\ ~calm \/ (sha = "none" /\ \A e \in Entry : tree[e] = "absent")
          /\ daemon' = "extract"
          /\ UNCHANGED <<tree, sha>>
    /\ Idle /\ UNCHANGED <<checksum, tarball, done>>

(* One entry: a file is created or truncated, then filled; a link is made.    *)
Torn == {e \in done : tree[e] = "torn"}

Extract(e) ==
    /\ daemon = "extract"
    /\ \/ /\ Torn = {} /\ e \notin done
          /\ e \in Link => tree[e] = "absent"
          /\ done' = done \union {e}
          /\ tree' = [tree EXCEPT ![e] = IF e \in Link THEN "whole" ELSE "torn"]
       \/ /\ e \in Torn
          /\ tree' = [tree EXCEPT ![e] = "whole"]
          /\ UNCHANGED done
    /\ Idle /\ UNCHANGED <<daemon, checksum, tarball, sha>>

SignBeforeExtract == \* wrong: stores the checksum without the last entries
    /\ Step("extract", "sign")
    /\ sha' = "torn"
    /\ Idle /\ UNCHANGED <<checksum, tarball, tree, done>>

(* The end of the archive; the checksum file is created.                      *)
Extracted ==
    /\ Step("extract", "sign")
    /\ tarball = "good"
    /\ done = Entry /\ Torn = {}
    /\ sha' = "torn"
    /\ Idle /\ UNCHANGED <<checksum, tarball, tree, done>>

(* The checksum is in the file; the temporary file is removed.                *)
Sign ==
    /\ Step("sign", "serving")
    /\ sha' = "right"
    /\ tarball' = "none"
    /\ Idle /\ UNCHANGED <<checksum, tree, done>>

(* Any step may return an error, and the daemon ends with it; a wrong         *)
(* checksum, a cut archive and a link in the way always are errors.           *)
Fails ==
    /\ \/ ~calm /\ daemon \in {"release", "fetch", "compare", "clear", "extract", "sign"}
       \/ daemon = "compare" /\ checksum = "known" /\ tarball = "bad"
       \/ /\ daemon = "extract"
          /\ tarball = "bad" \/ \E e \in Link \ done : tree[e] # "absent"
    /\ tarball' = "none"
    /\ Exit

(* A crash leaves the temporary file; no later start looks at it.             *)
Stop == daemon # "down" /\ (~calm \/ daemon = "serving") /\ tarball' = "none" /\ Exit

-----------------------------------------------------------------------------
(* Worker.Run                                                                 *)
Serving == daemon = "serving" /\ UNCHANGED <<daemon, checksum, calm>>
Go(j, from, to) == work[j] = from /\ work' = [work EXCEPT ![j] = to]

MakeWorkspace(j) ==
    /\ Serving /\ Go(j, "idle", "copying")
    /\ UNCHANGED <<cacheVars, copied>>

(* A hard link to the cached file where the file system has them.             *)
CopyEntry(j, e) ==
    /\ Serving
    /\ work[j] = "copying"
    /\ tree[e] # "absent" /\ e \notin copied[j]
    /\ copied' = [copied EXCEPT ![j] = @ \union {e}]
    /\ UNCHANGED <<cacheVars, work>>

RunJob(j) ==
    /\ Serving /\ Go(j, "copying", "running")
    /\ \A e \in Entry : tree[e] # "absent" => e \in copied[j]
    /\ UNCHANGED <<cacheVars, copied>>

CopyFails(j) ==
    /\ Serving /\ ~calm /\ Go(j, "copying", "removing")
    /\ UNCHANGED <<cacheVars, copied>>

(* A write to a linked file is a write to the cache.                          *)
JobWrites(j, e) ==
    /\ work[j] \in {"running", "orphan"}
    /\ e \in copied[j] /\ tree[e] = "whole"
    /\ tree' = [tree EXCEPT ![e] = "changed"]
    /\ UNCHANGED <<daemon, checksum, tarball, sha, done, jobVars, calm>>

(* run.sh ends by itself or because its context is cancelled.                 *)
JobEnds(j) ==
    /\ Serving /\ Go(j, "running", "removing")
    /\ UNCHANGED <<cacheVars, copied>>

RemoveWorkspace(j) ==
    /\ Serving /\ Go(j, "removing", "returned")
    /\ \/ copied' = [copied EXCEPT ![j] = {}]
       \/ ~calm /\ UNCHANGED copied
    /\ UNCHANGED cacheVars

CalmDown ==
    /\ ~calm
    /\ calm' = TRUE
    /\ UNCHANGED <<daemon, checksum, cacheVars, jobVars>>

-----------------------------------------------------------------------------
RunnerDirStep ==
    \/ LatestRelease \/ Verify \/ Fetch \/ Compare \/ Clear
    \/ (\E e \in Entry : Extract(e))
    \/ Extracted \/ Sign \/ Fails

WorkerStep(j) ==
    \/ (\E e \in Entry : CopyEntry(j, e))
    \/ RunJob(j) \/ CopyFails(j) \/ RemoveWorkspace(j)

Next ==
    \/ Start \/ RunnerDirStep \/ Stop \/ CalmDown
    \/ \E j \in Job : \/ MakeWorkspace(j) \/ WorkerStep(j) \/ JobEnds(j)
                      \/ \E e \in Entry : JobWrites(j, e)

Spec == Init /\ [][Next]_vars

(* The daemon's goroutines run; jobs need not end, nobody need start or stop  *)
(* the daemon.                                                                *)
FairSpec ==
    /\ Spec /\ WF_vars(RunnerDirStep)
    /\ \A j \in Job : WF_vars(WorkerStep(j))

-----------------------------------------------------------------------------
(* Every variable keeps its type, and the temporary file is there only while  *)
(* download runs (manager.go:112-117).                                        *)
TypeOK ==
    /\ daemon \in {"down", "release", "verify", "fetch", "compare", "clear",
                   "extract", "sign", "serving"}
    /\ checksum \in {"known", "unknown"}
    /\ tarball \in {"none", "good", "bad"}
    /\ tarball # "none" <=> daemon \in {"compare", "clear", "extract", "sign"}
    /\ tree \in [Entry -> {"absent", "torn", "whole", "changed"}]
    /\ sha \in {"none", "torn", "right"} /\ done \subseteq Entry
    /\ work \in [Job -> {"idle", "copying", "running", "removing", "returned", "orphan"}]
    /\ copied \in [Job -> SUBSET Entry]
    /\ calm \in BOOLEAN

(* A job of a daemon that knows the checksum runs in a workspace with every   *)
(* file of the archive, whatever crashes and errors the cache went through    *)
(* (manager.go:72-160, worker.go:32-66).                                      *)
VerifiedRunnerIsWhole ==
    (daemon = "serving" /\ checksum = "known") =>
        /\ \A e \in Entry : tree[e] \in {"whole", "changed"}
        /\ \A j \in Job : work[j] = "running" => copied[j] = Entry

(* Whatever a crash left in the cache, the next start with nothing failing    *)
(* gets to serve a runner.                                                    *)
CacheRecovers == (calm /\ daemon = "release") ~> daemon = "serving"
=============================================================================
