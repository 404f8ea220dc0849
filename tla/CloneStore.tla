------------------------------ MODULE CloneStore ------------------------------
(***************************************************************************)
(* A working clone on disk and the jobs that use it: download_repo and     *)
(* fetch_remote_tip (clients/git.py), _create_repo and managed_repo_dir    *)
(* (repositories/documents.py), the head of generate_codebase_docs,        *)
(* _detect_codebase and git_pull of the connectors.  The artifacts here    *)
(* are those whose URLs give one directory, <owner>_<repo>: artifacts of   *)
(* one repository, or of two of that name on different hosts.  A job holds *)
(* its artifact's lock; nobody locks the directory.  CodebaseDocs takes    *)
(* from this only that its checkout may change under a run.                *)
(*                                                                         *)
(* A step is one git process, or the answer of the network and what git    *)
(* writes of it.                                                           *)
(***************************************************************************)
EXTENDS Integers, FiniteSets

CONSTANTS
  Artifacts, Repos,
  NoCommit,
  Rubble,           \* what is read where there is no whole checkout
  MaxCommits, MaxJobs, MaxCloneFaults    \* bounds

ASSUME CloneBounds ==
  {MaxCommits, MaxJobs, MaxCloneFaults} \subseteq Nat /\ NoCommit \notin Artifacts

Commits == Repos \X (1 .. MaxCommits)

VARIABLES
  repoOf,       \* the repository that an artifact's URL names
  remote,       \* the tip of each repository, and whether the host hangs
  dir,          \* the directory: its checkout, FETCH_HEAD, commits and cloner
  job,          \* the job of each artifact
  docs, base,   \* what its documents were made from; its baseline commit
  clean,        \* no other job changed the directory while they were made
  jobs, cloneFaults

cloneVars == <<repoOf, remote, dir, job, docs, base, clean, jobs, cloneFaults>>

NoDir == [kind |-> "none", head |-> NoCommit, fetched |-> NoCommit,
          has |-> {}, by |-> NoCommit]
HasGit == dir.kind \in {"repo", "partial"}
NoFiles == dir.kind \in {"none", "empty"}
NoJob == [kind |-> "none", at |-> "end", tip |-> NoCommit, base |-> NoCommit,
          read |-> {}, met |-> {}]

Running(a) == job[a].kind # "none"
At(a, step) == job[a].at = step
Tip(a) == <<repoOf[a], remote.tip[repoOf[a]]>>

CloneInit ==
  /\ repoOf \in [Artifacts -> Repos]
  /\ remote = [tip |-> [r \in Repos |-> 1], hangs |-> FALSE]
  /\ dir = NoDir
  /\ job = [a \in Artifacts |-> NoJob]
  /\ docs = [a \in Artifacts |-> {}]
  /\ base = [a \in Artifacts |-> NoCommit]
  /\ clean = [a \in Artifacts |-> TRUE]
  /\ jobs = 0 /\ cloneFaults = 0

PushTo(r) ==
  /\ remote.tip[r] < MaxCommits
  /\ remote' = [remote EXCEPT !.tip[r] = @ + 1]
  /\ UNCHANGED <<repoOf, dir, job, docs, base, clean, jobs, cloneFaults>>

Fault == cloneFaults < MaxCloneFaults /\ cloneFaults' = cloneFaults + 1

HostHangs ==
  /\ ~remote.hangs /\ Fault
  /\ remote' = [remote EXCEPT !.hangs = TRUE]
  /\ UNCHANGED <<repoOf, dir, job, docs, base, clean, jobs>>

(* What a is doing changes the directory; whoever else is at work met it. *)
Changes(a, new, next) ==
  /\ dir' = new
  /\ job' = [b \in Artifacts |->
       IF b = a THEN next
       ELSE IF Running(b) THEN [job[b] EXCEPT !.met = @ \cup {job[a].kind}] ELSE job[b]]
  /\ UNCHANGED <<repoOf, remote, docs, base, clean, jobs>>
Goes(a, next) ==
  /\ job' = [job EXCEPT ![a] = next]
  /\ UNCHANGED <<repoOf, remote, dir, docs, base, clean, jobs>>
Steps(a, next) == Goes(a, next) /\ UNCHANGED cloneFaults

To(a, step) == [job[a] EXCEPT !.at = step]

(* Only a detection asks for an existing clone and a baseline; a pull is a *)
(* request for a repository, here one of an artifact's.                    *)
Begin(a, kind) ==
  /\ ~Running(a)
  /\ jobs < MaxJobs /\ jobs' = jobs + 1
  /\ kind = "detect" => dir.kind # "none" /\ base[a] # NoCommit
  /\ job' = [job EXCEPT ![a] =
       [NoJob EXCEPT !.kind = kind, !.at = IF kind = "detect" THEN "fetch" ELSE "look",
                     !.met = IF dir.by = NoCommit THEN {} ELSE {job[dir.by].kind}]]
  /\ UNCHANGED <<repoOf, remote, dir, docs, base, clean, cloneFaults>>

(* download_repo: generation forces a refresh, a pull takes what is there. *)
LooksAgain == CASE HasGit -> "fetch" [] NoFiles -> "clone" [] OTHER -> "remove"
LooksTrusting == IF NoFiles THEN "clone" ELSE "head"
Forced == LooksAgain
Look(a) ==
  /\ At(a, "look")
  /\ Steps(a, To(a, IF job[a].kind = "run" THEN Forced
                   ELSE IF NoFiles THEN "clone" ELSE "read"))

(* A fetch that fails: start over, or for a detection "unknown". *)
FetchLost(a) == IF job[a].kind = "run" THEN To(a, "remove") ELSE NoJob

Fetch(a) ==
  /\ At(a, "fetch") /\ ~remote.hangs
  /\ Steps(a, [To(a, "fetched") EXCEPT !.tip = Tip(a)])

FetchedDir(a) == [dir EXCEPT !.fetched = job[a].tip, !.has = @ \cup {job[a].tip}]
FetchedAndReset(a) == [FetchedDir(a) EXCEPT !.head = job[a].tip]
Wrote(a) == FetchedDir(a)

WriteFetchHead(a) ==
  /\ At(a, "fetched")
  /\ IF HasGit
     THEN Changes(a, Wrote(a), To(a, IF job[a].kind = "run" THEN "reset" ELSE "compare"))
     ELSE Goes(a, FetchLost(a))
  /\ UNCHANGED cloneFaults

FetchFails(a) == At(a, "fetch") /\ Fault /\ Goes(a, FetchLost(a))

(* Only a detection's git commands have a time limit. *)
DetectionsOnly(a) == job[a].kind = "detect"
Nobody(a) == FALSE
Limited(a) == DetectionsOnly(a)
TimesOut(a) == At(a, "fetch") /\ Limited(a) /\ Steps(a, NoJob)

(* reset --hard FETCH_HEAD, whoever has fetched it.  It mends a clone that *)
(* was cut off; of one that goes on it waits for no lock.                  *)
ResetTree(a) ==
  /\ At(a, "reset")
  /\ \/ /\ HasGit
        /\ LET mended == IF dir.by = NoCommit THEN "repo" ELSE "partial"
           IN Changes(a, [dir EXCEPT !.head = dir.fetched, !.kind = mended], To(a, "head"))
     \/ dir.kind # "repo" /\ dir.by # NoCommit /\ Goes(a, To(a, "remove"))
     \/ ~HasGit /\ Goes(a, To(a, "remove"))
  /\ UNCHANGED cloneFaults
ResetFails(a) == At(a, "reset") /\ Fault /\ Goes(a, To(a, "remove"))

RemoveTree(a) ==
  At(a, "remove") /\ Changes(a, NoDir, To(a, "clone")) /\ UNCHANGED cloneFaults

CloneBegin(a) ==
  /\ At(a, "clone")
  /\ IF NoFiles
     THEN Changes(a, [NoDir EXCEPT !.kind = "partial", !.by = a], To(a, "cloning"))
     ELSE Goes(a, NoJob)                         \* not empty: ValueError
  /\ UNCHANGED cloneFaults

CloneEnd(a) ==
  /\ At(a, "cloning") /\ ~remote.hangs
  /\ IF dir.by = a
     THEN Changes(a, [dir EXCEPT !.kind = "repo", !.by = NoCommit, !.head = Tip(a),
                                 !.has = @ \cup {Tip(a)}],
                  [To(a, IF job[a].kind = "run" THEN "head" ELSE "read")
                     EXCEPT !.tip = Tip(a)])
     ELSE Goes(a, NoJob)
  /\ UNCHANGED cloneFaults

(* git takes its files back and leaves the directory it was given. *)
CloneFails(a) ==
  /\ At(a, "cloning") /\ Fault
  /\ IF dir.by = a THEN Changes(a, [NoDir EXCEPT !.kind = "empty"], NoJob)
     ELSE Goes(a, NoJob)

(* The process is killed and the jobs, kept in memory, with it; a removal  *)
(* may have come as far as .git.                                           *)
Killed ==
  /\ Fault
  /\ \/ dir' = [dir EXCEPT !.by = NoCommit]
     \/ /\ ~NoFiles /\ \E a \in Artifacts : At(a, "remove")
        /\ dir' = [NoDir EXCEPT !.kind = "rubble"]
  /\ job' = [a \in Artifacts |-> NoJob]
  /\ UNCHANGED <<repoOf, remote, docs, base, clean, jobs>>

(* head_commit, then read_all_documents, then what the agents read.        *)
ReadHead(a) ==
  /\ At(a, "head")
  /\ Steps(a, [To(a, "read") EXCEPT !.base = dir.head])

FilesHeld == CASE NoFiles -> {} [] dir.kind = "repo" -> {dir.head} [] OTHER -> {Rubble}

ReadFiles(a) ==
  /\ At(a, "read")
  /\ Steps(a, IF job[a].kind = "pull" \/ FilesHeld = {} THEN NoJob
             ELSE [To(a, "agents") EXCEPT !.read = FilesHeld])
AgentsRead(a) == At(a, "agents") /\ Steps(a, [To(a, "done") EXCEPT !.read = @ \cup FilesHeld])

Persists(a) ==
  /\ At(a, "done")
  /\ docs' = [docs EXCEPT ![a] = job[a].read]
  /\ base' = [base EXCEPT ![a] = job[a].base]
  /\ clean' = [clean EXCEPT ![a] = job[a].met = {}]
  /\ job' = [job EXCEPT ![a] = NoJob]
  /\ UNCHANGED <<repoOf, remote, dir, jobs, cloneFaults>>

(* rev-parse FETCH_HEAD, and the difference to the baseline. *)
SeenTip(a) == dir.fetched
SeenHead(a) == dir.head
Seen(a) == SeenTip(a)
Answer(a) ==
  IF Seen(a) = NoCommit THEN "unknown"
  ELSE IF Seen(a) = base[a] THEN "unchanged"
  ELSE IF {base[a], Seen(a)} \subseteq dir.has THEN "files" ELSE "changed"
Compare(a) == At(a, "compare") /\ Steps(a, NoJob)

CloneNext ==
  \/ \E r \in Repos : PushTo(r)
  \/ HostHangs \/ Killed
  \/ \E a \in Artifacts :
       \/ \E kind \in {"run", "detect", "pull"} : Begin(a, kind)
       \/ Look(a) \/ Fetch(a) \/ WriteFetchHead(a) \/ FetchFails(a) \/ TimesOut(a)
       \/ ResetTree(a) \/ ResetFails(a) \/ RemoveTree(a)
       \/ CloneBegin(a) \/ CloneEnd(a) \/ CloneFails(a)
       \/ ReadHead(a) \/ ReadFiles(a) \/ AgentsRead(a) \/ Persists(a) \/ Compare(a)

CloneSpec == CloneInit /\ [][CloneNext]_cloneVars

(* A detection's own steps: git returns, or is ended at its time limit. *)
CloneFairness ==
  \A a \in Artifacts :
    WF_cloneVars(Fetch(a) \/ WriteFetchHead(a) \/ TimesOut(a) \/ Compare(a))

(***************************************************************************)
(* Properties.                                                             *)
(***************************************************************************)

(* A run that no other job disturbs describes the commit that was the tip  *)
(* when it fetched or cloned, and takes it for its baseline, whatever the  *)
(* directory held before: another repository, a clone that was cut off, a  *)
(* fetch that failed (download_repo with force_refresh).                   *)
RunDescribesTip ==
  [][\A a \in Artifacts : Persists(a) /\ job[a].met = {} =>
       docs'[a] = {job[a].tip} /\ base'[a] = job[a].tip]_cloneVars

(* "a detect run must not touch the checkout a concurrent reader may be    *)
(* using" (fetch_remote_tip): disturbed by detections at most, a run is    *)
(* about one commit and that is its baseline.                              *)
DetectKeepsCheckout ==
  [][\A a \in Artifacts : Persists(a) /\ job[a].met \subseteq {"detect"} =>
       docs'[a] = {base'[a]}]_cloneVars

(* An undisturbed detection answers "unchanged" only when the documents,   *)
(* made by an undisturbed run, are about the tip it has fetched, though    *)
(* the directory may hold another repository by then (_detect_codebase).   *)
UnchangedIsCurrent ==
  [][\A a \in Artifacts :
       Compare(a) /\ Answer(a) = "unchanged" /\ job[a].met = {} /\ clean[a]
       => docs[a] = {job[a].tip}]_cloneVars

(* "A hung remote must fail the detect job, not hold the entity lock       *)
(* forever" (fetch_remote_tip).                                            *)
DetectsEnd == []<>(\A a \in Artifacts : job[a].kind # "detect")
=============================================================================
