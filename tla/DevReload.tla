------------------------------ MODULE DevReload ------------------------------
(***************************************************************************)
(* crates/qqq-run/src/dev.rs and watch.rs: `qqqai dev`.  The watch thread  *)
(* polls the project for changes, waits until the tree is quiet, builds,   *)
(* checks that nothing changed meanwhile, and hands the candidate to       *)
(* LiveApp::replace_checked, of which it is the only caller here.          *)
(*                                                                         *)
(* An editor saves files at any time, between any two reads of the build   *)
(* or of Snapshot::take, which read one file after the other.  A file is   *)
(* its version: every save changes its fingerprint.  The manifest's bytes  *)
(* may also be changed back, which its fingerprint still shows.  Time is   *)
(* abstract: a poll with changes pending may find the tree quiet or not.   *)
(***************************************************************************)
EXTENDS LiveApp

CONSTANTS
    Sources,   \* files the build reads, inside the project
    Watched,   \* those below the watch roots (all of them by default)
    Manifest,  \* loaded.path, watched whatever the roots are
    Watcher,   \* the watch thread
    Broken,    \* versions of a source that do not compile
    MaxEdits   \* bound: saves by the editor

ASSUME DevAssumption ==
    /\ Watched \subseteq Sources
    /\ Manifest \notin Sources
    /\ Coordinators = {Watcher}
    /\ Broken \subseteq Nat \ {0}
    /\ MaxEdits \in Nat

VARIABLES
    disk,            \* the version of each file
    policyChanged,   \* the manifest's bytes differ from loaded.source
    phase,           \* where the watch thread is
    todo,            \* files the current build or Snapshot::take has yet to read
    scan,            \* the Snapshot being taken
    snapshot,        \* the baseline
    pending,         \* last_pending; the debouncer is armed iff it is not empty
    restartRequired,
    built,           \* the sources the build read
    served,          \* the sources of the active generation
    report,          \* the last reload message
    trees,           \* history: every state the sources have been in
    barred,          \* history: the manifest was saved since it was last checked
    missed           \* history: a save fell between the first build and the baseline

devVars == <<disk, policyChanged, phase, todo, scan, snapshot, pending, restartRequired,
             built, served, report, trees, barred, missed>>

Files == Sources \cup {Manifest}
Trees == [Sources -> 0..MaxEdits]
Versions == [Files -> 0..MaxEdits]

DevTypeOK ==
    /\ LiveTypeOK
    /\ disk \in Versions /\ scan \in Versions /\ snapshot \in Versions
    /\ built \in Trees /\ served \in Trees /\ trees \subseteq Trees
    /\ policyChanged \in BOOLEAN /\ restartRequired \in BOOLEAN
    /\ barred \in BOOLEAN /\ missed \in BOOLEAN
    /\ phase \in {"initial", "baseline", "poll", "build", "verify", "replace", "check", "stopped"}
    /\ todo \subseteq Files
    /\ pending \subseteq Files
    /\ report \in {"none", "activated", "waiting", "failed"}

DevInit ==
    /\ LiveInit
    /\ disk = [f \in Files |-> 0]
    /\ scan = disk
    /\ snapshot = disk
    /\ policyChanged = FALSE
    /\ phase = "initial"
    /\ todo = Sources
    /\ pending = {}
    /\ restartRequired = FALSE
    /\ built = [f \in Sources |-> 0]
    /\ served = built
    /\ report = "none"
    /\ trees = {built}
    /\ barred = FALSE
    /\ missed = FALSE

SourcesOf(tree) == [f \in Sources |-> tree[f]]
Serving == phase \notin {"initial", "baseline", "stopped"}

(* Faulty form of Unchanged: only added and removed files count. *)
UnchangedNames == DOMAIN scan = DOMAIN snapshot

(* Snapshot::changes_since(snapshot).is_empty() *)
Unchanged == scan = snapshot

(* The changes the poll keeps: below a watch root, or the manifest. *)
Changes == {f \in Watched \cup {Manifest} : scan[f] # snapshot[f]}

Compiles == \A f \in Sources : built[f] \notin Broken

-----------------------------------------------------------------------------
(* The editor. *)

(* Every later read of the manifest by a cycle in progress is behind it. *)
ManifestChecked ==
    \/ phase = "check" /\ Manifest \notin todo
    \/ phase = "replace" /\ step[Watcher] \in {"ready", "published"}

BaselineHasManifest == phase # "initial" /\ ~(phase = "baseline" /\ Manifest \in todo)

Save(f) ==
    /\ disk[f] < MaxEdits
    /\ disk' = [disk EXCEPT ![f] = @ + 1]
    /\ IF f = Manifest
       THEN /\ policyChanged' \in BOOLEAN
            /\ barred' = (barred \/ (BaselineHasManifest /\ ~ManifestChecked))
       ELSE UNCHANGED <<policyChanged, barred>>
    /\ trees' = trees \cup {SourcesOf(disk')}
    /\ UNCHANGED <<allVars, phase, todo, scan, snapshot, pending, restartRequired, built,
                   served, report, missed>>

-----------------------------------------------------------------------------
(* The watch thread.  Each of its steps leaves what the editor writes alone. *)
Env == <<disk, policyChanged, trees, barred>>

(* loop: the next poll walks the whole project. *)
Loop == phase' = "poll" /\ todo' = Files

Stop == phase' = "stopped" /\ UNCHANGED todo

(* build::execute reads one source after the other. *)
BuildRead(f) ==
    /\ phase \in {"initial", "build"}
    /\ f \in todo
    /\ built' = [built EXCEPT ![f] = disk[f]]
    /\ todo' = todo \ {f}
    /\ UNCHANGED <<allVars, Env, phase, scan, snapshot, pending, restartRequired, served,
                   report, missed>>

(* Snapshot::take fingerprints one file after the other. *)
Take(f) ==
    /\ phase \in {"baseline", "poll", "verify", "check"}
    /\ f \in todo
    /\ scan' = [scan EXCEPT ![f] = disk[f]]
    /\ todo' = todo \ {f}
    /\ UNCHANGED <<allVars, Env, phase, snapshot, pending, restartRequired, built, served,
                   report, missed>>

(* run: the first build comes before the first snapshot; its failure is the
   command's. *)
InitialBuilt ==
    /\ phase = "initial"
    /\ todo = {}
    /\ IF Compiles THEN phase' = "baseline" /\ todo' = Files ELSE Stop
    /\ served' = built
    /\ UNCHANGED <<allVars, Env, scan, snapshot, pending, restartRequired, built, report, missed>>

(* watch: start_listener refuses a manifest that changed during the build, and
   fails without a component or a port. *)
StartListener ==
    /\ phase = "baseline"
    /\ todo = {}
    /\ snapshot' = scan
    /\ missed' = (\E f \in Watched : scan[f] # built[f])
    /\ Stop \/ (~policyChanged /\ Loop)
    /\ UNCHANGED <<allVars, Env, scan, pending, restartRequired, built, served, report>>

(* server.shutdown.is_signalled(), or the listener has ended. *)
Interrupted ==
    /\ phase = "poll"
    /\ todo = Files
    /\ Stop
    /\ UNCHANGED <<allVars, Env, scan, snapshot, pending, restartRequired, built, served,
                   report, missed>>

(* A non-empty change set moves the baseline before any rebuild. *)
Observe ==
    /\ phase = "poll"
    /\ todo = {}
    /\ snapshot' = IF Changes = {} THEN snapshot ELSE scan
    /\ UNCHANGED <<allVars, Env, scan, built, served, missed>>

(* should_fire is none: nothing is pending or the tree is not quiet yet. *)
NotYet ==
    /\ Observe
    /\ pending' = pending \cup Changes
    /\ Loop
    /\ UNCHANGED <<restartRequired, report>>

(* Faulty form of RestartRequired: only the changes of this cycle decide. *)
RestartForThisCycle == Manifest \in pending \cup Changes \/ policyChanged

(* A manifest change stays a barrier; its bytes are compared as well. *)
RestartRequired == restartRequired \/ Manifest \in pending \cup Changes \/ policyChanged

Fire ==
    /\ Observe
    /\ pending \cup Changes # {}
    /\ pending' = {}
    /\ restartRequired' = RestartRequired
    /\ IF RestartRequired
       THEN Loop /\ report' = "failed"
       ELSE phase' = "build" /\ todo' = Sources /\ UNCHANGED report

(* Faulty form of Refuse: the baseline is taken again with the refusal, and
   swallows the change that caused it. *)
RefuseRebased(why) ==
    /\ report' = why
    /\ snapshot' = scan
    /\ Loop

(* The cycle ends with an error and the loop goes on. *)
Refuse(why) ==
    /\ report' = why
    /\ UNCHANGED snapshot
    /\ Loop

Built ==
    /\ phase = "build"
    /\ todo = {}
    /\ IF Compiles
       THEN phase' = "verify" /\ todo' = Files /\ UNCHANGED <<report, snapshot>>
       ELSE Refuse("failed")
    /\ UNCHANGED <<allVars, Env, scan, pending, restartRequired, built, served, missed>>

(* "source changed during preparation; waiting for the next build", or the
   component file cannot be read. *)
Verified ==
    /\ phase = "verify"
    /\ todo = {}
    /\ \/ Unchanged /\ phase' = "replace" /\ UNCHANGED <<todo, report, snapshot>>
       \/ Unchanged /\ Refuse("failed")
       \/ ~Unchanged /\ Refuse("waiting")
    /\ UNCHANGED <<allVars, Env, scan, pending, restartRequired, built, served, missed>>

(* replace_checked before its check: the lock, the lease, the reservation. *)
Prepare ==
    /\ phase = "replace"
    /\ ReplaceTryLock(Watcher) \/ ReplaceAcquire(Watcher) \/ ReplaceReserve(Watcher)
    /\ IF step'[Watcher] = "idle"
       THEN Refuse("failed")
       ELSE UNCHANGED <<phase, todo, report, snapshot>>
    /\ UNCHANGED <<Env, scan, pending, restartRequired, built, served, missed>>

(* The candidate does not validate, or goes on to check(): the manifest's
   bytes, then the tree once more. *)
CheckPolicy ==
    /\ phase = "replace"
    /\ step[Watcher] = "reserved"
    /\ \/ ReplaceRejected(Watcher) /\ report' = "failed" /\ UNCHANGED <<phase, todo>>
       \/ /\ policyChanged
          /\ ReplaceRejected(Watcher)
          /\ report' = "waiting"
          /\ UNCHANGED <<phase, todo>>
       \/ /\ ~policyChanged
          /\ phase' = "check"
          /\ todo' = Files
          /\ UNCHANGED <<allVars, report>>
    /\ UNCHANGED <<Env, scan, snapshot, pending, restartRequired, built, served, missed>>

CheckTree ==
    /\ phase = "check"
    /\ todo = {}
    /\ IF Unchanged
       THEN ReplaceReady(Watcher) /\ UNCHANGED report
       ELSE ReplaceRejected(Watcher) /\ report' = "waiting"
    /\ phase' = "replace"
    /\ UNCHANGED <<Env, todo, scan, snapshot, pending, restartRequired, built, served, missed>>

(* replace_checked after its check: publish, or the way out of a refusal. *)
Activate ==
    /\ phase = "replace"
    /\ \/ ReplaceFailed(Watcher) /\ Refuse(report) /\ UNCHANGED served
       \/ /\ ReplacePublish(Watcher)
          /\ IF step'[Watcher] = "published"
             THEN served' = built /\ UNCHANGED <<phase, todo, report, snapshot>>
             ELSE Refuse("failed") /\ UNCHANGED served
       \/ /\ ReplaceDone(Watcher)
          /\ report' = "activated"
          /\ Loop
          /\ UNCHANGED <<snapshot, served>>
    /\ UNCHANGED <<Env, scan, pending, restartRequired, built, missed>>

Request(c) == Serving /\ (AnswerBegin(c) \/ AnswerEnd(c)) /\ UNCHANGED devVars

WatchStep ==
    \/ \E f \in Sources : BuildRead(f)
    \/ \E f \in Files : Take(f)
    \/ InitialBuilt \/ StartListener \/ NotYet \/ Fire \/ Built \/ Verified
    \/ Prepare \/ CheckPolicy \/ CheckTree \/ Activate

DevNext ==
    \/ \E f \in Files : Save(f)
    \/ WatchStep
    \/ Interrupted
    \/ \E c \in Requests : Request(c)

everything == <<allVars, devVars>>

(* The watch thread runs; the debounce window passes after two polls without
   a change, so a poll cannot find the tree restless for ever. *)
DevFairness == WF_everything(WatchStep) /\ SF_everything(Fire)

DevSpec == DevInit /\ [][DevNext]_everything /\ DevFairness

-----------------------------------------------------------------------------
(* Properties. *)

(* "Failed candidates preserve the last good generation", and a good one is
   never a mixture: the code a reload activated was built from one state the
   source tree really was in, although the build reads it file by file while
   the editor saves.  The first generation (revision 1) is not checked. *)
NoMixedBuild == active[App] # 1 => served \in trees

(* "Manifest changes report restart-required and stop further activation under
   stale policy": once the manifest was saved, at any moment before the last
   check of a running cycle has read it, nothing is activated any more, even
   when its bytes were changed back. *)
PolicyBarrier == [][barred => served' = served]_everything

(* The tree the last report is about is the tree on disk. *)
Reported == pending = {} /\ \A f \in Watched : snapshot[f] = disk[f]

(* A file outside the roots that changed since the baseline: it makes every
   candidate stale and starts no build. *)
ChangedOutsideRoots == \E f \in Sources \ Watched : snapshot[f] # disk[f]

UpToDate == \A f \in Watched : served[f] = disk[f]

(* Once the editor rests, the watched sources are served or the last message is
   about them and says why not; "waiting for the next build" is the last word
   only when the change lies outside the roots.  Saves that fell between the
   first build and the baseline are excepted. *)
EditsSettle ==
    <>[](\/ phase = "stopped"
         \/ missed
         \/ UpToDate
         \/ Reported /\ report = "failed"
         \/ Reported /\ report = "waiting" /\ ChangedOutsideRoots)
=============================================================================
