------------------------ MODULE FolderHistoryProofs ------------------------
(***************************************************************************)
(* Proofs about FolderHistory: whatever the tabs, the paths and the bounds *)
(* are, a file beside the branch's version is a user's, a checkpoint holds *)
(* a user's work only, no save is lost, and while nothing fails a folder   *)
(* at rest is committed.                                                   *)
(***************************************************************************)
EXTENDS FolderHistory, FiniteSetTheorems, SequenceTheorems, TLAPS

(***************************************************************************)
(* The inductive invariant                                                 *)
(***************************************************************************)

JobPcs == {"idle", "waiting", "settling", "sending", "capture", "index", "publish",
           "apply", "branch", "readback", "recover"}
Locked == {"capture", "index", "publish", "apply", "branch", "readback", "recover"}
Publishing == {"apply", "branch", "readback"}

Seen == UNION {[S -> Contents] : S \in SUBSET Paths}
CommitType == [tree : Trees, past : SUBSET Nat, by : {"remote", "checkpoint", "merge"},
               from : Nat]
JobType == [pc : JobPcs, kind : Kinds \cup {"none"}, expected : Nat, next : Nat,
            seen : Seen, todo : SUBSET Paths, applied : BOOLEAN]
SaveType == [pc : {"idle", "writing", "landed"}, path : Paths \cup {Nobody}, content : Nat]
TabType == [open : {"open", "never", "closing"}, requested : Nat, answered : Nat,
            save : SaveType]
SpentType == [saves : Nat, merges : Nat, requests : Nat, faults : Nat]
RecordType == [state : {"none", "empty", "recorded"}, expected : Nat, next : Nat]

RepoTypes ==
    /\ files \in Trees /\ mine \in Trees /\ written \in [Paths -> SUBSET Contents]
    /\ commits \in Seq(CommitType)
    /\ index \in DOMAIN commits /\ branch \in DOMAIN commits
    /\ tracking \in DOMAIN commits /\ remote \in DOMAIN commits
    /\ record \in RecordType
    /\ record.expected \in 0..Len(commits) /\ record.next \in 0..Len(commits)

HandleTypes ==
    /\ gitLock \in {Nobody} \cup (Tabs \X Jobs)
    /\ filesLock \in {Nobody} \cup (Tabs \X {"ask", "save"})
    /\ tab \in [Tabs -> TabType] /\ job \in [Tabs -> [Jobs -> JobType]]
    /\ spent \in SpentType
    /\ \A t \in Tabs : tab[t].answered <= tab[t].requested
    /\ \A t \in Tabs : tab[t].save.pc = "writing" => tab[t].save.path \in Paths

(* A commit's past holds itself, only commits made before it, and the past *)
(* of each of them.                                                        *)
CommitsI ==
    \A c \in DOMAIN commits :
        /\ commits[c].by = "checkpoint" => commits[c].from \in DOMAIN commits
        /\ c \in Past(c) /\ Past(c) \subseteq 1..c
        /\ \A e \in Past(c) : Past(e) \subseteq Past(c)

(* A recorded update descends from the branch it replaces, and the branch  *)
(* is one of its two ends.                                                 *)
RecordI ==
    record.state = "recorded" =>
        /\ record.expected \in DOMAIN commits /\ record.next \in DOMAIN commits
        /\ record.expected \in Past(record.next)
        /\ branch \in {record.expected, record.next}

(* What a user last put at p is still there.                               *)
Mine(p) == files[p] = mine[p] /\ mine[p] \in written[p]

(* A file holds the branch's version or a user's; under a recorded update  *)
(* it may hold either end's, or be a new file its stream left empty.       *)
FilesI ==
    /\ record.state # "recorded" => \A p \in Paths : files[p] = Tree(branch)[p] \/ Mine(p)
    /\ record.state = "recorded" => \A p \in Paths :
        /\ \/ files[p] = Tree(record.expected)[p] \/ files[p] = Tree(record.next)[p]
           \/ Mine(p)
           \/ files[p] = Empty /\ Tree(record.expected)[p] # Tree(record.next)[p]
        /\ branch = record.next => files[p] = Tree(record.next)[p] \/ Mine(p)

RepoI == RepoTypes /\ CommitsI /\ RecordI /\ FilesI /\ NoSaveLost /\ CheckpointsAreMine

(* The automatic worker does nothing but checkpoints.                      *)
AutoI(j) == /\ j.pc \in {"idle", "waiting", "capture", "index", "settling"}
            /\ j.pc \in {"waiting", "capture", "index"} => j.kind = "commit"

(* The holder of each Web Lock is the work that stands inside it.          *)
LocksI ==
    /\ \A t \in Tabs, k \in Jobs : job[t][k].pc \in Locked <=> gitLock = <<t, k>>
    /\ \A t \in Tabs : job[t]["ask"].pc \in Publishing <=> filesLock = <<t, "ask">>
    /\ \A t \in Tabs : tab[t].save.pc = "writing" <=> filesLock = <<t, "save">>
    /\ \A t \in Tabs : AutoI(job[t]["auto"])

(* A capture: the branch is where it was pinned, no update is recorded,    *)
(* and what was read is still there or has been overwritten by a user.     *)
CaptureI(j) ==
    /\ j.pc = "waiting" => DOMAIN j.seen = {} /\ ~j.applied
    /\ j.pc = "capture" =>
        /\ record.state = "none" /\ branch = j.expected
        /\ j.kind \in {"pull", "merge"} => j.next \in DOMAIN commits
        /\ j.kind \in {"commit", "pull", "merge"} /\ ~j.applied
        /\ \A p \in DOMAIN j.seen : /\ files[p] = j.seen[p] \/ Mine(p)
                                    /\ j.seen[p] = Tree(branch)[p] \/ j.seen[p] \in written[p]

(* The files of a publication under way: what is left to do is as it was   *)
(* before, what is done is as it will be after.                            *)
ApplyI(j) ==
    /\ branch = j.expected /\ j.todo \subseteq Changed(j)
    /\ \A p \in Paths :
        /\ p \in j.todo => files[p] = Tree(j.expected)[p]
        /\ p \in Changed(j) \ j.todo => files[p] = Tree(j.next)[p]
        /\ p \notin Changed(j) /\ j.kind # "recover" => files[p] = Tree(j.next)[p]
    /\ j.kind # "recover" /\ ~j.applied => j.todo = Changed(j)

PublishI(j) ==
    /\ j.pc = "publish" =>
        /\ j.expected \in DOMAIN commits /\ j.next \in DOMAIN commits
        /\ j.seen = Tree(j.expected) /\ j.expected \in Past(j.next)
        /\ j.kind # "recover" /\ ~j.applied
    /\ j.pc \in Publishing => record = Recorded(j.expected, j.next)
    /\ j.pc \in {"apply", "branch"} => ApplyI(j)
    /\ j.pc = "branch" => j.todo = {}
    /\ j.pc = "readback" => branch = j.next /\ (j.kind # "recover" => files = Tree(j.next))
    /\ j.pc \in {"index", "sending"} => j.next \in DOMAIN commits
    /\ j.pc = "recover" => j.kind = "recover" /\ ~j.applied

JobsI == \A t \in Tabs, k \in Jobs : CaptureI(job[t][k]) /\ PublishI(job[t][k])

(* While nothing failed: a save that a checkpoint has not picked up is one *)
(* the worker still has to answer, and every other file is committed or in *)
(* the hands of the work that holds the Git lock.                          *)
Capturing(j) == j.pc = "capture" /\ j.kind = "commit"
Pending(p) ==
    \E t \in Tabs : \/ tab[t].save.pc # "idle" /\ tab[t].save.path = p
                    \/ tab[t].answered < tab[t].requested
Busy == \E t \in Tabs, k \in Jobs : Capturing(job[t][k]) \/ job[t][k].pc \in Publishing
SeenNow(p) ==
    \A t \in Tabs, k \in Jobs :
        Capturing(job[t][k]) /\ p \in DOMAIN job[t][k].seen => job[t][k].seen[p] = files[p]

QuietTabs ==
    \A t \in Tabs :
        /\ tab[t].open \in {"open", "never"}
        /\ tab[t].save.pc # "idle" => tab[t].open = "open"
        /\ tab[t].answered < tab[t].requested =>
              tab[t].open = "open" /\ job[t]["auto"].pc # "idle"
        /\ job[t]["ask"].pc \in Publishing => job[t]["ask"].kind # "recover"
QuietRecord == record.state # "none" => \E t \in Tabs : job[t]["ask"].pc \in Publishing
QuietFiles ==
    \A p \in Paths : Pending(p) \/ (SeenNow(p) /\ (Busy \/ files[p] = Tree(branch)[p]))
QuietI == spent.faults = 0 => QuietTabs /\ QuietRecord /\ QuietFiles

IInv == RepoI /\ HandleTypes /\ LocksI /\ JobsI /\ QuietI

(***************************************************************************)
(* The initial states                                                      *)
(***************************************************************************)

LEMMA ContentsFacts == /\ Absent \in Contents /\ Empty \in Contents
                       /\ 1 \in Contents /\ 2 \in Contents
  BY DEF Contents, Absent, Empty

LEMMA NoJobTyped == /\ NoJob \in JobType /\ NoJob.pc = "idle"
                    /\ NoJob.applied = FALSE
<1>1. [p \in {} |-> Absent] \in Seen
  <2>1. [p \in {} |-> Absent] \in [{} -> Contents]  BY ContentsFacts
  <2>. QED  BY <2>1 DEF Seen
<1>. QED  BY <1>1 DEF NoJob, JobType, JobPcs, Kinds

LEMMA NewTabTyped == NewTab \in TabType /\ [NewTab EXCEPT !.open = "never"] \in TabType
  BY DEF NewTab, TabType, NoSave, SaveType, Absent

LEMMA InitTypes == Init => RepoTypes /\ HandleTypes
<1>. SUFFICES ASSUME Init PROVE RepoTypes /\ HandleTypes
  OBVIOUS
<1>1. Root \in CommitType /\ Root.tree \in Trees
  BY ContentsFacts DEF Root, CommitType, Trees
<1>2. \A tree \in Edited : tree \in Trees
  BY ContentsFacts DEF Edited, Trees
<1>3. /\ commits \in Seq(CommitType) /\ Len(commits) \in {1, 2}
      /\ commits[1] = Root
  <2>1. CASE commits = <<Root>>  BY <2>1, <1>1
  <2>2. CASE commits \in {<<Root, [tree |-> tree, past |-> {1, 2}, by |-> "remote", from |-> 1]>> :
                            tree \in Edited}
    <3>1. PICK tree \in Edited : commits = <<Root, [tree |-> tree, past |-> {1, 2},
                                                   by |-> "remote", from |-> 1]>>
      BY <2>2
    <3>2. [tree |-> tree, past |-> {1, 2}, by |-> "remote", from |-> 1] \in CommitType
      BY <1>2 DEF CommitType
    <3>. QED  BY <3>1, <3>2, <1>1
  <2>. QED  BY <2>1, <2>2 DEF Init
<1>4. RepoTypes
  <2>1. DOMAIN commits = 1..Len(commits)  BY <1>3
  <2>2. record \in RecordType /\ record.expected = 0 /\ record.next = 0
    BY DEF Init, NoRecord, RecordType
  <2>. QED  BY <1>1, <1>3, <2>1, <2>2 DEF Init, RepoTypes, Trees
<1>5. PICK opened \in (SUBSET Tabs) \ {{}} :
        /\ tab = [t \in Tabs |-> IF t \in opened THEN NewTab ELSE [NewTab EXCEPT !.open = "never"]]
        /\ spent = [saves |-> Cardinality(opened) - 1, merges |-> 0, requests |-> 0,
                    faults |-> 0]
  BY DEF Init
<1>6. spent \in SpentType
  <2>0. IsFiniteSet(opened)
    <3>1. IsFiniteSet(Tabs)  BY FolderAssumption
    <3>2. opened \in SUBSET Tabs  BY <1>5
    <3>. QED  BY <3>1, <3>2, FS_Subset
  <2>1. Cardinality(opened) \in Nat /\ Cardinality(opened) # 0
    <3>1. opened # {}  BY <1>5
    <3>2. Cardinality(opened) \in Nat  BY <2>0, FS_CardinalityType
    <3>3. Cardinality(opened) = 0 <=> opened = {}  BY <2>0, FS_EmptySet
    <3>. QED  BY <3>1, <3>2, <3>3
  <2>2. Cardinality(opened) - 1 \in Nat  BY <2>1
  <2>. QED  BY <1>5, <2>2 DEF SpentType
<1>7. tab \in [Tabs -> TabType]  BY <1>5, NewTabTyped
<1>8. job \in [Tabs -> [Jobs -> JobType]]  BY NoJobTyped DEF Init
<1>9. \A t \in Tabs : tab[t].answered = 0 /\ tab[t].requested = 0 /\ tab[t].save.pc = "idle"
  BY <1>5 DEF NewTab, NoSave
<1>10. gitLock = Nobody /\ filesLock = Nobody  BY DEF Init
<1>11. HandleTypes  BY <1>6, <1>7, <1>8, <1>9, <1>10 DEF HandleTypes
<1>. QED  BY <1>4, <1>11

LEMMA InitIInv == Init => IInv
<1>. SUFFICES ASSUME Init PROVE IInv
  OBVIOUS
<1>1. RepoTypes /\ HandleTypes  BY InitTypes
<1>2. /\ files = Root.tree /\ branch = 1 /\ mine = files
      /\ record.state = "none"
  BY DEF Init, NoRecord
<1>3. commits[1] = Root /\ Root.tree = [p \in Paths |-> 1] /\ Root.past = {1}
  <2>1. CASE commits = <<Root>>  BY <2>1 DEF Root
  <2>2. CASE commits \in {<<Root, [tree |-> tree, past |-> {1, 2}, by |-> "remote", from |-> 1]>> :
                            tree \in Edited}
    BY <2>2 DEF Root
  <2>. QED  BY <2>1, <2>2 DEF Init
<1>4. CommitsI /\ \A c \in DOMAIN commits : commits[c].by = "remote"
  <2>1. CASE commits = <<Root>>  BY <2>1 DEF Root, CommitsI, Past
  <2>2. CASE commits \in {<<Root, [tree |-> tree, past |-> {1, 2}, by |-> "remote", from |-> 1]>> :
                            tree \in Edited}
    <3>1. PICK tree \in Edited : commits = <<Root, [tree |-> tree, past |-> {1, 2},
                                                   by |-> "remote", from |-> 1]>>
      BY <2>2
    <3>2. /\ DOMAIN commits = {1, 2}
          /\ commits[1].past = {1} /\ commits[2].past = {1, 2}
          /\ commits[1].by = "remote" /\ commits[2].by = "remote"
      BY <3>1 DEF Root
    <3>. QED  BY <3>2 DEF CommitsI, Past
  <2>. QED  BY <2>1, <2>2 DEF Init
<1>5. \A t \in Tabs, k \in Jobs : job[t][k] = NoJob  BY DEF Init
<1>6. JobsI
  BY <1>5, NoJobTyped DEF JobsI, CaptureI, PublishI, Publishing
<1>7. \A t \in Tabs : /\ tab[t].save.pc = "idle" /\ tab[t].answered = 0 /\ tab[t].requested = 0
                      /\ tab[t].open \in {"open", "never"}
  BY DEF Init, NewTab, NoSave
<1>8. LocksI
  <2>1. gitLock = Nobody /\ filesLock = Nobody  BY DEF Init
  <2>2. \A t \in Tabs, k \in {"auto", "ask", "save"} : <<t, k>> # Nobody
    BY FolderAssumption
  <2>. QED  BY <1>5, <1>7, <2>1, <2>2, NoJobTyped DEF LocksI, AutoI, Locked, Publishing, Jobs
<1>9. RepoI
  <2>1. FilesI  BY <1>2, <1>3 DEF FilesI, Tree
  <2>2. NoSaveLost  BY <1>2 DEF NoSaveLost
  <2>3. CheckpointsAreMine  BY <1>4 DEF CheckpointsAreMine
  <2>4. RecordI  BY <1>2 DEF RecordI
  <2>. QED  BY <1>1, <1>4, <2>1, <2>2, <2>3, <2>4 DEF RepoI
<1>10. QuietI
  <2>1. QuietTabs  BY <1>5, <1>7, NoJobTyped DEF QuietTabs, Publishing, Jobs
  <2>2. QuietRecord  BY <1>2 DEF QuietRecord
  <2>3. QuietFiles
    BY <1>2, <1>3, <1>5, NoJobTyped DEF QuietFiles, SeenNow, Capturing, Tree
  <2>. QED  BY <2>1, <2>2, <2>3 DEF QuietI
<1>. QED  BY <1>1, <1>6, <1>8, <1>9, <1>10 DEF IInv

(***************************************************************************)
(* What a step keeps                                                       *)
(***************************************************************************)

(* A step of job k of tab t leaves every other job alone.                  *)
Replaced(t, k) ==
    /\ job' \in [Tabs -> [Jobs -> JobType]]
    /\ \A u \in Tabs, l \in Jobs : u # t \/ l # k => job'[u][l] = job[u][l]

LEMMA SetReplaces ==
  ASSUME HandleTypes, NEW t \in Tabs, NEW k \in Jobs, NEW j \in JobType, Set(t, k, j)
  PROVE  job'[t][k] = j /\ Replaced(t, k)
  BY DEF HandleTypes, Set, Replaced

LEMMA SameReplaces ==
  ASSUME HandleTypes, NEW t \in Tabs, NEW k \in Jobs, job' = job
  PROVE  Replaced(t, k)
  BY DEF HandleTypes, Replaced

LEMMA JobTyped ==
  ASSUME HandleTypes, NEW t \in Tabs, NEW k \in Jobs
  PROVE  job[t][k] \in JobType
  BY DEF HandleTypes

LEMMA TabTyped ==
  ASSUME HandleTypes, NEW t \in Tabs
  PROVE  tab[t] \in TabType
  BY DEF HandleTypes

(* The files, the branch, the record and the commits are as they were.     *)
LEMMA RepoKept ==
  ASSUME RepoI, UNCHANGED <<files, branch, record, commits, mine, written>>,
         index' \in DOMAIN commits, tracking' \in DOMAIN commits, remote' \in DOMAIN commits
  PROVE  RepoI'
<1>1. RepoTypes'  BY DEF RepoI, RepoTypes
<1>2. CommitsI'  BY DEF RepoI, CommitsI, Past
<1>3. RecordI'  BY DEF RepoI, RecordI, Past
<1>4. FilesI'  BY DEF RepoI, FilesI, Tree, Mine
<1>5. NoSaveLost'  BY DEF RepoI, NoSaveLost, Tree, Past
<1>6. CheckpointsAreMine'  BY DEF RepoI, CheckpointsAreMine, Tree
<1>. QED  BY <1>1, <1>2, <1>3, <1>4, <1>5, <1>6 DEF RepoI

LEMMA RepositoryKept ==
  ASSUME RepoI, UNCHANGED <<files, repository, users>>
  PROVE  RepoI'
<1>1. UNCHANGED <<files, branch, record, commits, mine, written>>  BY DEF repository, users
<1>2. index' = index /\ tracking' = tracking /\ remote' = remote  BY DEF repository
<1>3. /\ index' \in DOMAIN commits /\ tracking' \in DOMAIN commits
      /\ remote' \in DOMAIN commits
  BY <1>2 DEF RepoI, RepoTypes
<1>. QED  BY <1>1, <1>3, RepoKept

LEMMA JobsKept ==
  ASSUME JobsI, NEW t \in Tabs, NEW k \in Jobs, Replaced(t, k),
         UNCHANGED <<files, branch, record, commits, mine, written>>,
         CaptureI(job[t][k])', PublishI(job[t][k])'
  PROVE  JobsI'
<1>1. ASSUME NEW u \in Tabs, NEW l \in Jobs, u # t \/ l # k
      PROVE  CaptureI(job[u][l])' /\ PublishI(job[u][l])'
  <2>1. job'[u][l] = job[u][l]  BY <1>1 DEF Replaced
  <2>2. CaptureI(job[u][l]) /\ PublishI(job[u][l])  BY DEF JobsI
  <2>3. CaptureI(job[u][l])'  BY <2>1, <2>2 DEF CaptureI, Mine, Tree
  <2>4. ASSUME ApplyI(job[u][l]) PROVE ApplyI(job[u][l])'
    <3>1. Changed(job[u][l])' = Changed(job[u][l])  BY <2>1 DEF Changed, Tree
    <3>. QED  BY <2>1, <2>4, <3>1 DEF ApplyI, Tree
  <2>5. PublishI(job[u][l])'
    BY <2>1, <2>2, <2>4 DEF PublishI, Recorded, Tree, Past
  <2>. QED  BY <2>3, <2>5
<1>. QED  BY <1>1 DEF JobsI

(* The holder of the Git lock is alone with the repository.                *)
LEMMA JobsAlone ==
  ASSUME JobsI, LocksI, NEW t \in Tabs, NEW k \in Jobs, Replaced(t, k), gitLock = <<t, k>>,
         DOMAIN commits \subseteq DOMAIN commits',
         CaptureI(job[t][k])', PublishI(job[t][k])'
  PROVE  JobsI'
<1>1. ASSUME NEW u \in Tabs, NEW l \in Jobs, u # t \/ l # k
      PROVE  CaptureI(job[u][l])' /\ PublishI(job[u][l])'
  <2>1. job'[u][l] = job[u][l]  BY <1>1 DEF Replaced
  <2>2. PublishI(job[u][l])  BY DEF JobsI
  <2>3. job[u][l].pc \notin Locked
    <3>1. gitLock # <<u, l>>  BY <1>1
    <3>. QED  BY <3>1 DEF LocksI
  <2>4. CaptureI(job[u][l])'
    <3>1. CaptureI(job[u][l])  BY DEF JobsI
    <3>. QED  BY <2>1, <2>3, <3>1 DEF CaptureI, Locked
  <2>5. PublishI(job[u][l])'
    BY <2>1, <2>2, <2>3 DEF PublishI, Locked, Publishing
  <2>. QED  BY <2>4, <2>5
<1>. QED  BY <1>1 DEF JobsI

LEMMA IdleJobs ==
  ASSUME NEW t \in Tabs, NEW k \in Jobs,
         job'[t][k].pc \in {"idle", "waiting", "settling"},
         job'[t][k].pc = "waiting" => DOMAIN job'[t][k].seen = {} /\ ~job'[t][k].applied
  PROVE  CaptureI(job[t][k])' /\ PublishI(job[t][k])'
  BY DEF CaptureI, PublishI, Publishing

LEMMA DoneTyped ==
  ASSUME NEW k \in Jobs
  PROVE  /\ Done(k) \in JobType /\ Done(k).pc \in {"idle", "settling"}
         /\ k = "auto" => Done(k).pc = "settling"
         /\ k = "ask" => Done(k) = NoJob
  BY NoJobTyped DEF Done, NoJob, JobType, JobPcs, Jobs

LEMMA WaitingTyped ==
  ASSUME NEW kind \in Kinds
  PROVE  /\ [NoJob EXCEPT !.pc = "waiting", !.kind = kind] \in JobType
         /\ [NoJob EXCEPT !.pc = "waiting", !.kind = kind].pc = "waiting"
         /\ [NoJob EXCEPT !.pc = "waiting", !.kind = kind].kind = kind
         /\ DOMAIN [NoJob EXCEPT !.pc = "waiting", !.kind = kind].seen = {}
         /\ ~[NoJob EXCEPT !.pc = "waiting", !.kind = kind].applied
  BY NoJobTyped DEF NoJob, JobType, JobPcs

LEMMA LockNames ==
  ASSUME NEW t \in Tabs
  PROVE  /\ <<t, "auto">> # Nobody /\ <<t, "ask">> # Nobody /\ <<t, "save">> # Nobody
         /\ \A k \in Jobs : <<t, k>> # Nobody
  BY FolderAssumption DEF Jobs

(* Neither a checkpoint's capture nor a publication.                       *)
Calm(j) == ~Capturing(j) /\ j.pc \notin Publishing

LEMMA CalmQuiet ==
  ASSUME QuietFiles, NEW t \in Tabs, NEW k \in Jobs, Replaced(t, k),
         Calm(job[t][k]), Calm(job[t][k])', files' = files, branch' = branch,
         commits'[branch] = commits[branch], \A p \in Paths : Pending(p) => Pending(p)'
  PROVE  QuietFiles'
<1>. SUFFICES ASSUME NEW p \in Paths, ~Pending(p)
              PROVE  SeenNow(p)' /\ (Busy' \/ files'[p] = Tree(branch)'[p])
  BY DEF QuietFiles
<1>1. SeenNow(p) /\ (Busy \/ files[p] = Tree(branch)[p])  BY DEF QuietFiles
<1>2. SeenNow(p)'  BY <1>1 DEF SeenNow, Replaced, Calm, Capturing
<1>3. ASSUME Busy PROVE Busy'
  <2>1. PICK u \in Tabs, l \in Jobs : Capturing(job[u][l]) \/ job[u][l].pc \in Publishing
    BY <1>3 DEF Busy
  <2>2. u # t \/ l # k  BY <2>1 DEF Calm
  <2>3. job'[u][l] = job[u][l]  BY <2>2 DEF Replaced
  <2>. QED  BY <2>1, <2>3 DEF Busy, Capturing
<1>. QED  BY <1>1, <1>2, <1>3 DEF Tree

LEMMA SameRecordQuiet ==
  ASSUME QuietRecord, NEW t \in Tabs, NEW k \in Jobs, Replaced(t, k),
         record' = record, Calm(job[t][k])
  PROVE  QuietRecord'
<1>. SUFFICES ASSUME record.state # "none" PROVE \E u \in Tabs : job'[u]["ask"].pc \in Publishing
  BY DEF QuietRecord
<1>1. PICK u \in Tabs : job[u]["ask"].pc \in Publishing  BY DEF QuietRecord
<1>2. u # t \/ "ask" # k  BY <1>1 DEF Calm
<1>. QED  BY <1>1, <1>2 DEF Replaced, Jobs

LEMMA FaultSpent ==
  ASSUME HandleTypes, FailsNow
  PROVE  spent'.faults # 0 /\ spent' \in SpentType
<1>1. spent \in SpentType  BY DEF HandleTypes
<1>2. spent'.faults = spent.faults + 1 /\ spent' \in SpentType
  BY <1>1 DEF FailsNow, SpentType
<1>3. spent'.faults # 0  BY <1>1, <1>2 DEF SpentType
<1>. QED  BY <1>2, <1>3

SavesKept == \A u \in Tabs : tab'[u].save.pc = "writing" <=> tab[u].save.pc = "writing"

LEMMA LocksKept ==
  ASSUME LocksI, NEW t \in Tabs, NEW k \in Jobs, Replaced(t, k), SavesKept, UNCHANGED locks,
         job'[t][k].pc \in Locked <=> job[t][k].pc \in Locked,
         job'[t][k].pc \in Publishing <=> job[t][k].pc \in Publishing,
         k = "auto" => AutoI(job[t][k])'
  PROVE  LocksI'
<1>0. gitLock' = gitLock /\ filesLock' = filesLock  BY DEF locks
<1>1. ASSUME NEW u \in Tabs, NEW l \in Jobs
      PROVE  job'[u][l].pc \in Locked <=> gitLock' = <<u, l>>
  BY <1>0 DEF LocksI, Replaced
<1>2. ASSUME NEW u \in Tabs
      PROVE  /\ job'[u]["ask"].pc \in Publishing <=> filesLock' = <<u, "ask">>
             /\ tab'[u].save.pc = "writing" <=> filesLock' = <<u, "save">>
  BY <1>0 DEF LocksI, Replaced, SavesKept, Jobs
<1>3. ASSUME NEW u \in Tabs PROVE AutoI(job[u]["auto"])'
  BY DEF LocksI, AutoI, Replaced, Jobs
<1>. QED  BY <1>1, <1>2, <1>3 DEF LocksI

LEMMA LocksTaken ==
  ASSUME LocksI, NEW t \in Tabs, NEW k \in Jobs, Replaced(t, k), SavesKept,
         gitLock = Nobody, gitLock' = <<t, k>>, filesLock' = filesLock,
         job'[t][k].pc \in Locked \ Publishing,
         k = "auto" => AutoI(job[t][k])'
  PROVE  LocksI'
<1>1. ASSUME NEW u \in Tabs, NEW l \in Jobs
      PROVE  job'[u][l].pc \in Locked <=> gitLock' = <<u, l>>
  BY LockNames DEF LocksI, Replaced
<1>2. ASSUME NEW u \in Tabs
      PROVE  /\ job'[u]["ask"].pc \in Publishing <=> filesLock' = <<u, "ask">>
             /\ tab'[u].save.pc = "writing" <=> filesLock' = <<u, "save">>
  <2>1. job[t][k].pc \notin Publishing  BY LockNames DEF LocksI, Locked, Publishing
  <2>. QED  BY <2>1 DEF LocksI, Replaced, SavesKept, Jobs
<1>3. ASSUME NEW u \in Tabs PROVE AutoI(job[u]["auto"])'
  BY DEF LocksI, AutoI, Replaced, Jobs
<1>. QED  BY <1>1, <1>2, <1>3 DEF LocksI

LEMMA LocksFreed ==
  ASSUME LocksI, NEW t \in Tabs, NEW k \in Jobs, Replaced(t, k), SavesKept,
         gitLock = <<t, k>>, gitLock' = Nobody,
         filesLock' = IF job[t][k].pc \in Publishing THEN Nobody ELSE filesLock,
         job'[t][k].pc \in {"idle", "settling"}
  PROVE  LocksI'
<1>1. ASSUME NEW u \in Tabs, NEW l \in Jobs
      PROVE  job'[u][l].pc \in Locked <=> gitLock' = <<u, l>>
  <2>1. gitLock' # <<u, l>>  BY LockNames
  <2>2. CASE u # t \/ l # k
    <3>1. gitLock # <<u, l>>  BY <2>2
    <3>. QED  BY <2>1, <2>2, <3>1 DEF LocksI, Replaced
  <2>3. CASE u = t /\ l = k  BY <2>1, <2>3 DEF Locked
  <2>. QED  BY <2>2, <2>3
<1>2. ASSUME NEW u \in Tabs
      PROVE  /\ job'[u]["ask"].pc \in Publishing <=> filesLock' = <<u, "ask">>
             /\ tab'[u].save.pc = "writing" <=> filesLock' = <<u, "save">>
  <2>1. k = "auto" => job[t][k].pc \notin Publishing
    BY DEF LocksI, AutoI, Publishing
  <2>2. CASE job[t][k].pc \in Publishing
    <3>1. k = "ask" /\ filesLock = <<t, "ask">> /\ filesLock' = Nobody
      BY <2>1, <2>2 DEF LocksI, Jobs
    <3>2. filesLock # <<u, "save">> /\ filesLock' # <<u, "ask">> /\ filesLock' # <<u, "save">>
      BY <3>1, LockNames
    <3>3. job'[u]["ask"].pc \notin Publishing
      BY <3>1 DEF LocksI, Replaced, Publishing, Jobs
    <3>. QED  BY <3>2, <3>3 DEF LocksI, SavesKept
  <2>3. CASE job[t][k].pc \notin Publishing
    <3>1. filesLock' = filesLock  BY <2>3
    <3>2. job'[u]["ask"].pc \in Publishing <=> job[u]["ask"].pc \in Publishing
      BY <2>3 DEF Replaced, Publishing, Jobs
    <3>. QED  BY <3>1, <3>2 DEF LocksI, SavesKept
  <2>. QED  BY <2>2, <2>3
<1>3. ASSUME NEW u \in Tabs PROVE AutoI(job[u]["auto"])'
  BY DEF LocksI, AutoI, Replaced, Jobs
<1>. QED  BY <1>1, <1>2, <1>3 DEF LocksI

LEMMA FilesLockTaken ==
  ASSUME LocksI, NEW t \in Tabs, Replaced(t, "ask"), SavesKept,
         gitLock' = gitLock, filesLock = Nobody, filesLock' = <<t, "ask">>,
         job[t]["ask"].pc \in Locked, job'[t]["ask"].pc \in Publishing
  PROVE  LocksI'
<1>1. ASSUME NEW u \in Tabs, NEW l \in Jobs
      PROVE  job'[u][l].pc \in Locked <=> gitLock' = <<u, l>>
  BY DEF LocksI, Replaced, Locked, Publishing
<1>2. ASSUME NEW u \in Tabs
      PROVE  /\ job'[u]["ask"].pc \in Publishing <=> filesLock' = <<u, "ask">>
             /\ tab'[u].save.pc = "writing" <=> filesLock' = <<u, "save">>
  BY LockNames DEF LocksI, Replaced, SavesKept, Jobs
<1>3. ASSUME NEW u \in Tabs PROVE AutoI(job[u]["auto"])'
  BY DEF LocksI, AutoI, Replaced, Jobs
<1>. QED  BY <1>1, <1>2, <1>3 DEF LocksI

LEMMA HandlesKept ==
  ASSUME HandleTypes, NEW t \in Tabs, NEW k \in Jobs, Replaced(t, k), tab' = tab,
         spent' \in SpentType,
         gitLock' \in {gitLock, Nobody, <<t, k>>},
         filesLock' \in {filesLock, Nobody, <<t, "ask">>}
  PROVE  HandleTypes' /\ SavesKept
<1>1. gitLock' \in {Nobody} \cup (Tabs \X Jobs)  BY DEF HandleTypes
<1>2. filesLock' \in {Nobody} \cup (Tabs \X {"ask", "save"})  BY DEF HandleTypes
<1>. QED  BY <1>1, <1>2 DEF HandleTypes, Replaced, SavesKept

LEMMA QuietTabsKept ==
  ASSUME QuietTabs, NEW t \in Tabs, NEW k \in Jobs, Replaced(t, k), tab' = tab,
         k = "auto" => \/ job'[t]["auto"].pc # "idle"
                       \/ ~(tab[t].answered < tab[t].requested),
         k = "ask" => (job'[t]["ask"].pc \in Publishing => job'[t]["ask"].kind # "recover")
  PROVE  QuietTabs'
<1>. SUFFICES ASSUME NEW u \in Tabs
              PROVE  /\ tab[u].open \in {"open", "never"}
                     /\ tab[u].save.pc # "idle" => tab[u].open = "open"
                     /\ tab[u].answered < tab[u].requested =>
                            tab[u].open = "open" /\ job'[u]["auto"].pc # "idle"
                     /\ job'[u]["ask"].pc \in Publishing => job'[u]["ask"].kind # "recover"
  BY DEF QuietTabs
<1>. QED  BY DEF QuietTabs, Replaced, Jobs

LEMMA PendingKept ==
  ASSUME tab' = tab, NEW p
  PROVE  Pending(p)' <=> Pending(p)
  BY DEF Pending

(* A step that leaves the files, the branch and the record alone and is    *)
(* neither a checkpoint's capture nor a publication.                       *)
LEMMA CalmStep ==
  ASSUME IInv, NEW t \in Tabs, NEW k \in Jobs, Replaced(t, k),
         UNCHANGED <<files, branch, record, commits, mine, written>>,
         index' \in DOMAIN commits, tracking' \in DOMAIN commits, remote' \in DOMAIN commits,
         tab' = tab, HandleTypes', LocksI', CaptureI(job[t][k])', PublishI(job[t][k])',
         Calm(job[t][k]), Calm(job[t][k])', spent'.faults = spent.faults,
         k = "auto" => \/ job'[t]["auto"].pc # "idle"
                       \/ ~(tab[t].answered < tab[t].requested)
  PROVE  IInv'
<1>1. RepoI'  BY RepoKept DEF IInv
<1>2. JobsI'  BY JobsKept DEF IInv
<1>3. QuietI'
  <2>. SUFFICES ASSUME spent.faults = 0 PROVE QuietTabs' /\ QuietRecord' /\ QuietFiles'
    BY DEF QuietI
  <2>1. QuietTabs /\ QuietRecord /\ QuietFiles  BY DEF IInv, QuietI
  <2>2. QuietTabs'
    <3>1. k = "ask" => (job'[t]["ask"].pc \in Publishing => job'[t]["ask"].kind # "recover")
      BY DEF Calm
    <3>. QED  BY <2>1, <3>1, QuietTabsKept
  <2>3. QuietRecord'  BY <2>1, SameRecordQuiet
  <2>4. QuietFiles'
    <3>1. \A p \in Paths : Pending(p) => Pending(p)'  BY PendingKept
    <3>2. commits'[branch] = commits[branch] /\ files' = files /\ branch' = branch  OBVIOUS
    <3>. QED  BY <2>1, <3>1, <3>2, CalmQuiet
  <2>. QED  BY <2>2, <2>3, <2>4
<1>. QED  BY <1>1, <1>2, <1>3 DEF IInv

LEMMA FaultStep ==
  ASSUME spent'.faults # 0, RepoI', HandleTypes', LocksI', JobsI'
  PROVE  IInv'
  BY DEF IInv, QuietI

LEMMA RefsKept ==
  ASSUME RepoI, UNCHANGED <<files, repository, users>>
  PROVE  /\ UNCHANGED <<files, branch, record, commits, mine, written>>
         /\ index' \in DOMAIN commits /\ tracking' \in DOMAIN commits
         /\ remote' \in DOMAIN commits
  BY DEF RepoI, RepoTypes, repository, users

(***************************************************************************)
(* Requests, the worker, fetch and push                                    *)
(***************************************************************************)

(* A step of a job that stands outside the Git lock and stays there.       *)
LEMMA IdleStep ==
  ASSUME IInv, NEW t \in Tabs, NEW k \in Jobs, Replaced(t, k),
         UNCHANGED <<files, branch, record, commits, mine, written>>,
         index' \in DOMAIN commits, tracking' \in DOMAIN commits, remote' \in DOMAIN commits,
         UNCHANGED locks, tab' = tab, spent' \in SpentType,
         job[t][k].pc \notin Locked, job'[t][k].pc \notin Locked,
         k = "auto" => AutoI(job[t][k])', CaptureI(job[t][k])', PublishI(job[t][k])',
         \/ spent'.faults # 0
         \/ /\ spent'.faults = spent.faults
            /\ k = "auto" => \/ job'[t]["auto"].pc # "idle"
                             \/ ~(tab[t].answered < tab[t].requested)
  PROVE  IInv'
<1>0. RepoI /\ HandleTypes /\ LocksI /\ JobsI  BY DEF IInv
<1>1. gitLock' = gitLock /\ filesLock' = filesLock  BY DEF locks
<1>2. HandleTypes' /\ SavesKept  BY <1>0, <1>1, HandlesKept
<1>3. LocksI'
  <2>1. /\ job'[t][k].pc \in Locked <=> job[t][k].pc \in Locked
        /\ job'[t][k].pc \in Publishing <=> job[t][k].pc \in Publishing
    BY DEF Locked, Publishing
  <2>. QED  BY <1>0, <1>2, <2>1, LocksKept
<1>5. CASE spent'.faults # 0
  <2>1. RepoI'  BY <1>0, RepoKept
  <2>2. JobsI'  BY <1>0, JobsKept
  <2>. QED  BY <1>2, <1>3, <1>5, <2>1, <2>2, FaultStep
<1>6. CASE /\ spent'.faults = spent.faults
           /\ k = "auto" => \/ job'[t]["auto"].pc # "idle"
                            \/ ~(tab[t].answered < tab[t].requested)
  <2>1. Calm(job[t][k]) /\ Calm(job[t][k])'
    BY DEF Calm, Capturing, Publishing, Locked
  <2>. QED  BY <1>2, <1>3, <1>6, <2>1, CalmStep
<1>. QED  BY <1>5, <1>6

LEMMA AskStep ==
  ASSUME IInv, NEW t \in Tabs, NEW kind \in Kinds, Ask(t, kind)
  PROVE  IInv'
<1>. DEFINE new == [NoJob EXCEPT !.pc = "waiting", !.kind = kind]
<1>0. RepoI /\ HandleTypes /\ LocksI /\ JobsI  BY DEF IInv
<1>1. /\ new \in JobType /\ new.pc = "waiting"
      /\ DOMAIN new.seen = {} /\ ~new.applied
  BY WaitingTyped
<1>2. "ask" \in Jobs  BY DEF Jobs
<1>3. Set(t, "ask", new)  BY DEF Ask
<1>. HIDE DEF new
<1>4. job'[t]["ask"] = new /\ Replaced(t, "ask")
  BY <1>0, <1>1, <1>2, <1>3, SetReplaces
<1>5. UNCHANGED <<files, repository, users>> /\ UNCHANGED locks /\ tab' = tab
  BY DEF Ask
<1>6. /\ UNCHANGED <<files, branch, record, commits, mine, written>>
      /\ index' \in DOMAIN commits /\ tracking' \in DOMAIN commits
      /\ remote' \in DOMAIN commits
  BY <1>0, <1>5, RefsKept
<1>7. spent' \in SpentType /\ spent'.faults = spent.faults
  <2>1. spent \in SpentType  BY <1>0 DEF HandleTypes
  <2>. QED  BY <2>1 DEF Ask, SpentType
<1>8. job[t]["ask"].pc \notin Locked /\ job'[t]["ask"].pc \notin Locked
  BY <1>1, <1>4 DEF Ask, Locked
<1>9. CaptureI(job[t]["ask"])' /\ PublishI(job[t]["ask"])'
  BY <1>1, <1>2, <1>4, IdleJobs
<1>. QED  BY <1>2, <1>4, <1>5, <1>6, <1>7, <1>8, <1>9, IdleStep

LEMMA RefusedByCloseStep ==
  ASSUME IInv, NEW t \in Tabs, NEW k \in Jobs, RefusedByClose(t, k)
  PROVE  IInv'
<1>0. RepoI /\ HandleTypes /\ LocksI /\ JobsI  BY DEF IInv
<1>1. NoJob \in JobType /\ NoJob.pc = "idle"  BY NoJobTyped
<1>2. Set(t, k, NoJob)  BY DEF RefusedByClose
<1>3. job'[t][k] = NoJob /\ Replaced(t, k)  BY <1>0, <1>1, <1>2, SetReplaces
<1>4. UNCHANGED <<files, repository, users>> /\ UNCHANGED locks /\ tab' = tab /\ spent' = spent
  BY DEF RefusedByClose
<1>5. /\ UNCHANGED <<files, branch, record, commits, mine, written>>
      /\ index' \in DOMAIN commits /\ tracking' \in DOMAIN commits
      /\ remote' \in DOMAIN commits
  BY <1>0, <1>4, RefsKept
<1>6. spent' \in SpentType  BY <1>0, <1>4 DEF HandleTypes
<1>7. job[t][k].pc \notin Locked /\ job'[t][k].pc \notin Locked
  BY <1>1, <1>3 DEF RefusedByClose, Locked
<1>8. CaptureI(job[t][k])' /\ PublishI(job[t][k])'  BY <1>1, <1>3, IdleJobs
<1>9. k = "auto" => AutoI(job[t][k])'  BY <1>1, <1>3 DEF AutoI
<1>10. CASE spent.faults = 0
  <2>1. tab[t].open # "closing"  BY <1>10 DEF IInv, QuietI, QuietTabs
  <2>. QED  BY <2>1 DEF RefusedByClose
<1>11. CASE spent.faults # 0
  BY <1>3, <1>4, <1>5, <1>6, <1>7, <1>8, <1>9, <1>11, IdleStep
<1>. QED  BY <1>10, <1>11

LEMMA SettlesStep ==
  ASSUME IInv, NEW t \in Tabs, Settles(t)
  PROVE  IInv'
<1>. DEFINE again == tab[t].open = "open" /\ tab[t].answered < tab[t].requested
            waiting == [NoJob EXCEPT !.pc = "waiting", !.kind = "commit"]
            new == IF again THEN waiting ELSE NoJob
<1>0. RepoI /\ HandleTypes /\ LocksI /\ JobsI  BY DEF IInv
<1>1. /\ waiting \in JobType /\ waiting.pc = "waiting" /\ waiting.kind = "commit"
      /\ DOMAIN waiting.seen = {} /\ ~waiting.applied
      /\ NoJob \in JobType /\ NoJob.pc = "idle"
  BY NoJobTyped, WaitingTyped DEF Kinds
<1>2. "auto" \in Jobs  BY DEF Jobs
<1>3. Set(t, "auto", new)  BY DEF Settles
<1>. HIDE DEF again, waiting
<1>4. /\ new \in JobType /\ new.pc \in {"waiting", "idle"}
      /\ new.pc = "waiting" => new.kind = "commit" /\ DOMAIN new.seen = {} /\ ~new.applied
      /\ new.pc = "idle" => ~again
  BY <1>1
<1>. HIDE DEF new
<1>5. job'[t]["auto"] = new /\ Replaced(t, "auto")
  BY <1>0, <1>2, <1>3, <1>4, SetReplaces
<1>6. UNCHANGED <<files, repository, users>> /\ UNCHANGED locks /\ tab' = tab /\ spent' = spent
  BY DEF Settles
<1>7. /\ UNCHANGED <<files, branch, record, commits, mine, written>>
      /\ index' \in DOMAIN commits /\ tracking' \in DOMAIN commits
      /\ remote' \in DOMAIN commits
  BY <1>0, <1>6, RefsKept
<1>8. spent' \in SpentType  BY <1>0, <1>6 DEF HandleTypes
<1>9. job[t]["auto"].pc \notin Locked /\ job'[t]["auto"].pc \notin Locked
  BY <1>4, <1>5 DEF Settles, Locked
<1>10. CaptureI(job[t]["auto"])' /\ PublishI(job[t]["auto"])'
  BY <1>2, <1>4, <1>5, IdleJobs
<1>11. AutoI(job[t]["auto"])'  BY <1>4, <1>5 DEF AutoI
<1>12. CASE spent.faults = 0
  <2>1. tab[t].answered < tab[t].requested => tab[t].open = "open"
    BY <1>12 DEF IInv, QuietI, QuietTabs
  <2>2. job'[t]["auto"].pc # "idle" \/ ~(tab[t].answered < tab[t].requested)
    BY <1>4, <1>5, <2>1 DEF again
  <2>. QED  BY <1>2, <1>5, <1>6, <1>7, <1>8, <1>9, <1>10, <1>11, <2>2, IdleStep
<1>13. CASE spent.faults # 0
  BY <1>2, <1>5, <1>6, <1>7, <1>8, <1>9, <1>10, <1>11, <1>13, IdleStep
<1>. QED  BY <1>12, <1>13

LEMMA NoJobSet ==
  ASSUME HandleTypes, NEW t \in Tabs, NEW k \in Jobs, Set(t, k, NoJob)
  PROVE  /\ Replaced(t, k) /\ job'[t][k].pc = "idle"
         /\ CaptureI(job[t][k])' /\ PublishI(job[t][k])' /\ AutoI(job[t][k])'
<1>1. NoJob \in JobType /\ NoJob.pc = "idle"  BY NoJobTyped
<1>2. job'[t][k] = NoJob /\ Replaced(t, k)  BY <1>1, SetReplaces
<1>. QED  BY <1>1, <1>2, IdleJobs DEF AutoI

LEMMA DoneSet ==
  ASSUME HandleTypes, NEW t \in Tabs, NEW k \in Jobs, Set(t, k, Done(k))
  PROVE  /\ Replaced(t, k) /\ job'[t][k].pc \in {"idle", "settling"}
         /\ k = "auto" => job'[t][k].pc = "settling"
         /\ CaptureI(job[t][k])' /\ PublishI(job[t][k])' /\ AutoI(job[t][k])'
<1>1. /\ Done(k) \in JobType /\ Done(k).pc \in {"idle", "settling"}
      /\ k = "auto" => Done(k).pc = "settling"
  BY DoneTyped
<1>2. job'[t][k] = Done(k) /\ Replaced(t, k)  BY <1>1, SetReplaces
<1>. QED  BY <1>1, <1>2, IdleJobs DEF AutoI

LEMMA WorksSpent ==
  ASSUME HandleTypes, Works
  PROVE  spent' \in SpentType /\ spent'.faults = spent.faults
  BY DEF HandleTypes, Works

LEMMA FetchStep ==
  ASSUME IInv, NEW t \in Tabs, Fetch(t)
  PROVE  IInv'
<1>0. RepoI /\ HandleTypes /\ LocksI /\ JobsI  BY DEF IInv
<1>1. "ask" \in Jobs  BY DEF Jobs
<1>2. Set(t, "ask", NoJob)  BY DEF Fetch
<1>3. /\ Replaced(t, "ask") /\ job'[t]["ask"].pc = "idle"
      /\ CaptureI(job[t]["ask"])' /\ PublishI(job[t]["ask"])'
  BY <1>0, <1>1, <1>2, NoJobSet
<1>4. /\ UNCHANGED <<files, branch, record, commits, mine, written>>
      /\ UNCHANGED locks /\ tab' = tab
  BY DEF Fetch, users
<1>5. /\ index' \in DOMAIN commits /\ tracking' \in DOMAIN commits
      /\ remote' \in DOMAIN commits
  BY <1>0 DEF Fetch, RepoI, RepoTypes
<1>6. job[t]["ask"].pc \notin Locked /\ job'[t]["ask"].pc \notin Locked
  BY <1>3 DEF Fetch, Locked
<1>7. spent' \in SpentType /\ (spent'.faults # 0 \/ spent'.faults = spent.faults)
  BY <1>0, WorksSpent, FaultSpent DEF Fetch
<1>. QED  BY <1>1, <1>3, <1>4, <1>5, <1>6, <1>7, IdleStep

LEMMA PushPinsStep ==
  ASSUME IInv, NEW t \in Tabs, PushPins(t)
  PROVE  IInv'
<1>. DEFINE new == [job[t]["ask"] EXCEPT !.pc = "sending", !.next = branch]
<1>0. RepoI /\ HandleTypes /\ LocksI /\ JobsI  BY DEF IInv
<1>1. "ask" \in Jobs  BY DEF Jobs
<1>2. job[t]["ask"] \in JobType  BY <1>0, <1>1, JobTyped
<1>3. branch \in Nat /\ branch \in DOMAIN commits
  BY <1>0 DEF RepoI, RepoTypes
<1>4. new \in JobType /\ new.pc = "sending" /\ new.next = branch
  BY <1>2, <1>3 DEF JobType, JobPcs
<1>5. Set(t, "ask", new)  BY DEF PushPins
<1>. HIDE DEF new
<1>6. job'[t]["ask"] = new /\ Replaced(t, "ask")
  BY <1>0, <1>1, <1>4, <1>5, SetReplaces
<1>7. UNCHANGED <<files, repository, users>> /\ UNCHANGED locks /\ tab' = tab /\ spent' = spent
  BY DEF PushPins
<1>8. /\ UNCHANGED <<files, branch, record, commits, mine, written>>
      /\ index' \in DOMAIN commits /\ tracking' \in DOMAIN commits
      /\ remote' \in DOMAIN commits
  BY <1>0, <1>7, RefsKept
<1>9. spent' \in SpentType  BY <1>0, <1>7 DEF HandleTypes
<1>10. job[t]["ask"].pc \notin Locked /\ job'[t]["ask"].pc \notin Locked
  BY <1>4, <1>6 DEF PushPins, Locked
<1>11. CaptureI(job[t]["ask"])' /\ PublishI(job[t]["ask"])'
  BY <1>3, <1>4, <1>6, <1>8 DEF CaptureI, PublishI, Publishing
<1>. QED  BY <1>1, <1>6, <1>7, <1>8, <1>9, <1>10, <1>11, IdleStep

LEMMA PushEndsStep ==
  ASSUME IInv, NEW t \in Tabs, PushEnds(t)
  PROVE  IInv'
<1>0. RepoI /\ HandleTypes /\ LocksI /\ JobsI  BY DEF IInv
<1>1. "ask" \in Jobs  BY DEF Jobs
<1>2. Set(t, "ask", NoJob)  BY DEF PushEnds
<1>3. /\ Replaced(t, "ask") /\ job'[t]["ask"].pc = "idle"
      /\ CaptureI(job[t]["ask"])' /\ PublishI(job[t]["ask"])'
  BY <1>0, <1>1, <1>2, NoJobSet
<1>4. /\ UNCHANGED <<files, branch, record, commits, mine, written>>
      /\ UNCHANGED locks /\ tab' = tab
  BY DEF PushEnds, users
<1>5. job[t]["ask"].pc = "sending"  BY DEF PushEnds
<1>6. job[t]["ask"].next \in DOMAIN commits
  <2>1. PublishI(job[t]["ask"])  BY <1>0, <1>1 DEF JobsI
  <2>. QED  BY <1>5, <2>1 DEF PublishI
<1>7. /\ index' \in DOMAIN commits /\ tracking' \in DOMAIN commits
      /\ remote' \in DOMAIN commits
  BY <1>0, <1>6 DEF PushEnds, RepoI, RepoTypes, refs
<1>8. job[t]["ask"].pc \notin Locked /\ job'[t]["ask"].pc \notin Locked
  BY <1>3, <1>5 DEF Locked
<1>9. spent' \in SpentType /\ (spent'.faults # 0 \/ spent'.faults = spent.faults)
  BY <1>0, WorksSpent, FaultSpent DEF PushEnds
<1>. QED  BY <1>1, <1>3, <1>4, <1>7, <1>8, <1>9, IdleStep

LEMMA EnterRecoverStep ==
  ASSUME IInv, NEW t \in Tabs, EnterRecover(t)
  PROVE  IInv'
<1>. DEFINE new == [job[t]["ask"] EXCEPT !.pc = "recover"]
<1>0. RepoI /\ HandleTypes /\ LocksI /\ JobsI  BY DEF IInv
<1>1. "ask" \in Jobs  BY DEF Jobs
<1>2. job[t]["ask"] \in JobType  BY <1>0, <1>1, JobTyped
<1>3. job[t]["ask"].pc = "waiting" /\ job[t]["ask"].kind = "recover" /\ gitLock = Nobody
  BY DEF EnterRecover, Enters
<1>4. ~job[t]["ask"].applied
  <2>1. CaptureI(job[t]["ask"])  BY <1>0, <1>1 DEF JobsI
  <2>. QED  BY <1>3, <2>1 DEF CaptureI
<1>5. new \in JobType /\ new.pc = "recover" /\ new.kind = "recover" /\ ~new.applied
  BY <1>2, <1>3, <1>4 DEF JobType, JobPcs
<1>6. Set(t, "ask", new)  BY DEF EnterRecover
<1>. HIDE DEF new
<1>7. job'[t]["ask"] = new /\ Replaced(t, "ask")
  BY <1>0, <1>1, <1>5, <1>6, SetReplaces
<1>8. /\ UNCHANGED <<files, repository, users>> /\ tab' = tab /\ spent' = spent
      /\ filesLock' = filesLock /\ gitLock' = <<t, "ask">>
  BY DEF EnterRecover
<1>9. /\ UNCHANGED <<files, branch, record, commits, mine, written>>
      /\ index' \in DOMAIN commits /\ tracking' \in DOMAIN commits
      /\ remote' \in DOMAIN commits
  BY <1>0, <1>8, RefsKept
<1>10. spent' \in SpentType  BY <1>0, <1>8 DEF HandleTypes
<1>11. HandleTypes' /\ SavesKept  BY <1>0, <1>1, <1>7, <1>8, <1>10, HandlesKept
<1>12. LocksI'
  <2>1. job'[t]["ask"].pc \in Locked \ Publishing  BY <1>5, <1>7 DEF Locked, Publishing
  <2>. QED  BY <1>0, <1>1, <1>3, <1>7, <1>8, <1>11, <2>1, LocksTaken
<1>13. CaptureI(job[t]["ask"])' /\ PublishI(job[t]["ask"])'
  BY <1>5, <1>7 DEF CaptureI, PublishI, Publishing
<1>14. Calm(job[t]["ask"]) /\ Calm(job[t]["ask"])'
  BY <1>3, <1>5, <1>7 DEF Calm, Capturing, Publishing
<1>. QED
  BY <1>1, <1>7, <1>8, <1>9, <1>11, <1>12, <1>13, <1>14, CalmStep

LEMMA EnterIncomingStep ==
  ASSUME IInv, NEW t \in Tabs, EnterIncoming(t)
  PROVE  IInv'
<1>. DEFINE new == [job[t]["ask"] EXCEPT !.pc = "capture", !.expected = branch, !.next = tracking]
<1>0. RepoI /\ HandleTypes /\ LocksI /\ JobsI  BY DEF IInv
<1>1. "ask" \in Jobs  BY DEF Jobs
<1>2. job[t]["ask"] \in JobType  BY <1>0, <1>1, JobTyped
<1>3. /\ job[t]["ask"].pc = "waiting" /\ job[t]["ask"].kind \in {"pull", "merge"}
      /\ gitLock = Nobody
  BY DEF EnterIncoming, Enters
<1>4. /\ UNCHANGED <<files, repository, users>> /\ tab' = tab /\ spent' = spent
      /\ filesLock' = filesLock
  BY DEF EnterIncoming
<1>5. /\ UNCHANGED <<files, branch, record, commits, mine, written>>
      /\ index' \in DOMAIN commits /\ tracking' \in DOMAIN commits
      /\ remote' \in DOMAIN commits
  BY <1>0, <1>4, RefsKept
<1>6. spent' \in SpentType  BY <1>0, <1>4 DEF HandleTypes
<1>7. CASE Set(t, "ask", NoJob) /\ UNCHANGED gitLock
  <2>1. /\ Replaced(t, "ask") /\ job'[t]["ask"].pc = "idle"
        /\ CaptureI(job[t]["ask"])' /\ PublishI(job[t]["ask"])'
    BY <1>0, <1>1, <1>7, NoJobSet
  <2>2. job[t]["ask"].pc \notin Locked /\ job'[t]["ask"].pc \notin Locked
    BY <1>3, <2>1 DEF Locked
  <2>3. UNCHANGED locks  BY <1>4, <1>7 DEF locks
  <2>. QED  BY <1>1, <1>4, <1>5, <1>6, <2>1, <2>2, <2>3, IdleStep
<1>8. CASE Settled /\ Set(t, "ask", new) /\ gitLock' = <<t, "ask">>
  <2>0. Settled /\ Set(t, "ask", new) /\ gitLock' = <<t, "ask">>  BY <1>8
  <2>1. /\ branch \in Nat /\ tracking \in Nat
        /\ branch \in DOMAIN commits /\ tracking \in DOMAIN commits
    BY <1>0 DEF RepoI, RepoTypes
  <2>2. DOMAIN job[t]["ask"].seen = {} /\ ~job[t]["ask"].applied
    <3>1. CaptureI(job[t]["ask"])  BY <1>0, <1>1 DEF JobsI
    <3>. QED  BY <1>3, <3>1 DEF CaptureI
  <2>3. /\ new \in JobType /\ new.pc = "capture" /\ new.kind = job[t]["ask"].kind
        /\ new.expected = branch /\ new.next = tracking
        /\ new.seen = job[t]["ask"].seen /\ new.applied = job[t]["ask"].applied
    BY <1>2, <2>1 DEF JobType, JobPcs
  <2>. HIDE DEF new
  <2>4. job'[t]["ask"] = new /\ Replaced(t, "ask")
    BY <1>0, <1>1, <2>0, <2>3, SetReplaces
  <2>5. HandleTypes' /\ SavesKept  BY <1>0, <1>1, <1>4, <1>6, <2>0, <2>4, HandlesKept
  <2>6. LocksI'
    <3>1. job'[t]["ask"].pc \in Locked \ Publishing  BY <2>3, <2>4 DEF Locked, Publishing
    <3>. QED  BY <1>0, <1>1, <1>3, <1>4, <2>0, <2>4, <2>5, <3>1, LocksTaken
  <2>7. CaptureI(job[t]["ask"])'
    BY <1>3, <1>5, <2>0, <2>1, <2>2, <2>3, <2>4 DEF CaptureI, Settled
  <2>8. PublishI(job[t]["ask"])'
    BY <2>3, <2>4 DEF PublishI, Publishing
  <2>9. Calm(job[t]["ask"]) /\ Calm(job[t]["ask"])'
    BY <1>3, <2>3, <2>4 DEF Calm, Capturing, Publishing
  <2>. QED
    BY <1>1, <1>4, <1>5, <2>4, <2>5, <2>6, <2>7, <2>8, <2>9, CalmStep
<1>. QED  BY <1>7, <1>8 DEF EnterIncoming

(***************************************************************************)
(* Checkpoints                                                             *)
(***************************************************************************)

LEMMA AnsweredFacts ==
  ASSUME HandleTypes, NEW t \in Tabs, tab' = Answered(t)
  PROVE  /\ tab' \in [Tabs -> TabType] /\ SavesKept
         /\ tab'[t].answered = tab[t].requested /\ tab'[t].requested = tab[t].requested
         /\ \A u \in Tabs : /\ tab'[u].open = tab[u].open /\ tab'[u].save = tab[u].save
                            /\ u # t => tab'[u] = tab[u]
<1>1. tab \in [Tabs -> TabType]  BY DEF HandleTypes
<1>2. tab'[t] = [tab[t] EXCEPT !.answered = tab[t].requested]  BY <1>1 DEF Answered
<1>3. \A u \in Tabs : u # t => tab'[u] = tab[u]  BY <1>1 DEF Answered
<1>4. tab[t] \in TabType  BY <1>1
<1>5. /\ tab'[t] \in TabType /\ tab'[t].answered = tab[t].requested
      /\ tab'[t].requested = tab[t].requested
      /\ tab'[t].open = tab[t].open /\ tab'[t].save = tab[t].save
  BY <1>2, <1>4 DEF TabType
<1>6. tab' \in [Tabs -> TabType]  BY <1>1, <1>3, <1>5 DEF Answered
<1>7. SavesKept  BY <1>3, <1>5 DEF SavesKept
<1>. QED  BY <1>3, <1>5, <1>6, <1>7

LEMMA AnsweredHandles ==
  ASSUME HandleTypes, NEW t \in Tabs, NEW k \in Jobs, tab' = Answered(t), Replaced(t, k),
         spent' = spent, gitLock' \in {gitLock, <<t, k>>}, filesLock' = filesLock
  PROVE  HandleTypes'
<1>1. gitLock' \in {Nobody} \cup (Tabs \X Jobs)  BY DEF HandleTypes
<1>2. /\ tab' \in [Tabs -> TabType]
      /\ tab'[t].answered = tab[t].requested /\ tab'[t].requested = tab[t].requested
      /\ \A u \in Tabs : tab'[u].save = tab[u].save /\ (u # t => tab'[u] = tab[u])
  BY AnsweredFacts
<1>3. tab[t].requested \in Nat  BY TabTyped DEF TabType
<1>4. \A u \in Tabs : tab'[u].answered <= tab'[u].requested
  BY <1>2, <1>3 DEF HandleTypes
<1>5. \A u \in Tabs : tab'[u].save.pc = "writing" => tab'[u].save.path \in Paths
  BY <1>2 DEF HandleTypes
<1>. QED  BY <1>1, <1>2, <1>4, <1>5 DEF HandleTypes, Replaced

LEMMA EnterCommitStep ==
  ASSUME IInv, NEW t \in Tabs, NEW k \in Jobs, EnterCommit(t, k)
  PROVE  IInv'
<1>. DEFINE new == [job[t][k] EXCEPT !.pc = "capture", !.expected = branch]
<1>0. RepoI /\ HandleTypes /\ LocksI /\ JobsI  BY DEF IInv
<1>1. job[t][k] \in JobType  BY <1>0, JobTyped
<1>2. job[t][k].pc = "waiting" /\ job[t][k].kind = "commit" /\ gitLock = Nobody
  BY DEF EnterCommit, Enters
<1>3. /\ UNCHANGED <<files, repository, users>> /\ tab' = Answered(t) /\ spent' = spent
      /\ filesLock' = filesLock
  BY DEF EnterCommit
<1>4. /\ UNCHANGED <<files, branch, record, commits, mine, written>>
      /\ index' \in DOMAIN commits /\ tracking' \in DOMAIN commits
      /\ remote' \in DOMAIN commits
  BY <1>0, <1>3, RefsKept
<1>5. spent' \in SpentType  BY <1>0, <1>3 DEF HandleTypes
<1>6. RepoI'  BY <1>0, <1>4, RepoKept
<1>7. SavesKept  BY <1>0, <1>3, AnsweredFacts
<1>8. Calm(job[t][k])  BY <1>2 DEF Calm, Capturing, Publishing
<1>9. CASE /\ (k = "auto" /\ tab[t].answered = tab[t].requested) \/ ~Settled
           /\ Set(t, k, Done(k)) /\ UNCHANGED gitLock
  <2>0. Set(t, k, Done(k)) /\ gitLock' = gitLock  BY <1>9
  <2>1. /\ Replaced(t, k) /\ job'[t][k].pc \in {"idle", "settling"}
        /\ k = "auto" => job'[t][k].pc = "settling"
        /\ CaptureI(job[t][k])' /\ PublishI(job[t][k])' /\ AutoI(job[t][k])'
    BY <1>0, <2>0, DoneSet
  <2>2. UNCHANGED locks  BY <1>3, <2>0 DEF locks
  <2>3. CASE k = "auto" /\ tab[t].answered = tab[t].requested
    <3>1. tab' = tab
      <4>1. tab \in [Tabs -> TabType] /\ tab[t] \in TabType  BY <1>0 DEF HandleTypes
      <4>2. [tab[t] EXCEPT !.answered = tab[t].requested] = tab[t]
        BY <2>3, <4>1 DEF TabType
      <4>. QED  BY <1>3, <4>1, <4>2 DEF Answered
    <3>2. job[t][k].pc \notin Locked /\ job'[t][k].pc \notin Locked
      BY <1>2, <2>1 DEF Locked
    <3>. QED  BY <1>3, <1>4, <1>5, <2>1, <2>2, <2>3, <3>1, <3>2, IdleStep
  <2>4. CASE ~Settled
    <3>1. spent.faults # 0
      <4>. SUFFICES ASSUME spent.faults = 0 PROVE FALSE
        OBVIOUS
      <4>1. PICK u \in Tabs : job[u]["ask"].pc \in Publishing
        BY <2>4 DEF IInv, QuietI, QuietRecord, Settled
      <4>2. gitLock = <<u, "ask">>  BY <1>0, <4>1 DEF LocksI, Locked, Publishing, Jobs
      <4>. QED  BY <1>2, <4>2, LockNames
    <3>2. HandleTypes'  BY <1>0, <1>3, <2>0, <2>1, AnsweredHandles
    <3>3. /\ job'[t][k].pc \in Locked <=> job[t][k].pc \in Locked
          /\ job'[t][k].pc \in Publishing <=> job[t][k].pc \in Publishing
      BY <1>2, <2>1 DEF Locked, Publishing
    <3>4. LocksI'  BY <1>0, <1>7, <2>1, <2>2, <3>3, LocksKept
    <3>5. JobsI'  BY <1>0, <1>4, <2>1, JobsKept
    <3>. QED  BY <1>3, <1>6, <3>1, <3>2, <3>4, <3>5, FaultStep
  <2>. QED  BY <1>9, <2>3, <2>4
<1>10. CASE Settled /\ Set(t, k, new) /\ gitLock' = <<t, k>>
  <2>0. Settled /\ Set(t, k, new) /\ gitLock' = <<t, k>>  BY <1>10
  <2>1. branch \in Nat /\ branch \in DOMAIN commits
    BY <1>0 DEF RepoI, RepoTypes
  <2>2. DOMAIN job[t][k].seen = {} /\ ~job[t][k].applied
    <3>1. CaptureI(job[t][k])  BY <1>0 DEF JobsI
    <3>. QED  BY <1>2, <3>1 DEF CaptureI
  <2>3. /\ new \in JobType /\ new.pc = "capture" /\ new.kind = "commit"
        /\ new.expected = branch
        /\ new.seen = job[t][k].seen /\ new.applied = job[t][k].applied
    BY <1>1, <1>2, <2>1 DEF JobType, JobPcs
  <2>. HIDE DEF new
  <2>4. job'[t][k] = new /\ Replaced(t, k)  BY <1>0, <2>0, <2>3, SetReplaces
  <2>5. HandleTypes'  BY <1>0, <1>3, <2>0, <2>4, AnsweredHandles
  <2>6. LocksI'
    <3>1. job'[t][k].pc \in Locked \ Publishing  BY <2>3, <2>4 DEF Locked, Publishing
    <3>2. AutoI(job[t][k])'  BY <2>3, <2>4 DEF AutoI
    <3>. QED  BY <1>0, <1>2, <1>3, <1>7, <2>0, <2>4, <3>1, <3>2, LocksTaken
  <2>7. CaptureI(job[t][k])'
    BY <1>4, <2>0, <2>2, <2>3, <2>4 DEF CaptureI, Settled
  <2>8. PublishI(job[t][k])'  BY <2>3, <2>4 DEF PublishI, Publishing
  <2>9. JobsI'  BY <1>0, <1>4, <2>4, <2>7, <2>8, JobsKept
  <2>10. QuietI'
    <3>. SUFFICES ASSUME spent.faults = 0 PROVE QuietTabs' /\ QuietRecord' /\ QuietFiles'
      BY <1>3 DEF QuietI
    <3>1. QuietTabs /\ QuietRecord /\ QuietFiles  BY DEF IInv, QuietI
    <3>2. QuietRecord'  BY <1>4, <1>8, <2>4, <3>1, SameRecordQuiet
    <3>3. QuietTabs'
      <4>1. /\ tab'[t].answered = tab[t].requested /\ tab'[t].requested = tab[t].requested
            /\ \A u \in Tabs : /\ tab'[u].open = tab[u].open /\ tab'[u].save = tab[u].save
                               /\ u # t => tab'[u] = tab[u]
        BY <1>0, <1>3, AnsweredFacts
      <4>2. tab[t].requested \in Nat  BY <1>0, TabTyped DEF TabType
      <4>3. ~(tab'[t].answered < tab'[t].requested)  BY <4>1, <4>2
      <4>4. \A u \in Tabs : u # t => job'[u]["auto"] = job[u]["auto"]
        BY <2>4 DEF Replaced, Jobs
      <4>5. \A u \in Tabs : job'[u]["ask"].pc \in Publishing => job'[u]["ask"] = job[u]["ask"]
        BY <2>3, <2>4 DEF Replaced, Jobs, Publishing
      <4>6. \A u \in Tabs : tab'[u].answered < tab'[u].requested =>
                tab'[u].open = "open" /\ job'[u]["auto"].pc # "idle"
        BY <3>1, <4>1, <4>3, <4>4 DEF QuietTabs
      <4>7. \A u \in Tabs : /\ tab'[u].open \in {"open", "never"}
                            /\ tab'[u].save.pc # "idle" => tab'[u].open = "open"
        BY <3>1, <4>1 DEF QuietTabs
      <4>8. \A u \in Tabs :
                job'[u]["ask"].pc \in Publishing => job'[u]["ask"].kind # "recover"
        BY <3>1, <4>5 DEF QuietTabs
      <4>. QED  BY <4>6, <4>7, <4>8 DEF QuietTabs
    <3>4. QuietFiles'
      <4>1. Busy'  BY <2>3, <2>4 DEF Busy, Capturing
      <4>2. ASSUME NEW p \in Paths PROVE SeenNow(p)'
        <5>1. ASSUME NEW u \in Tabs, NEW l \in Jobs, Capturing(job[u][l])',
                     p \in DOMAIN job'[u][l].seen
              PROVE  job'[u][l].seen[p] = files'[p]
          <6>1. u = t /\ l = k
            <7>1. job'[u][l].pc \in Locked  BY <5>1 DEF Capturing, Locked
            <7>2. gitLock' = <<u, l>>  BY <2>6, <7>1 DEF LocksI
            <7>. QED  BY <2>0, <7>2
          <6>. QED  BY <2>2, <2>3, <2>4, <5>1, <6>1
        <5>. QED  BY <5>1 DEF SeenNow
      <4>. QED  BY <4>1, <4>2 DEF QuietFiles
    <3>. QED  BY <3>2, <3>3, <3>4
  <2>. QED  BY <1>6, <2>5, <2>6, <2>9, <2>10 DEF IInv
<1>. QED  BY <1>9, <1>10 DEF EnterCommit

(* A job that gives its locks back.                                        *)
LEMMA FreedStep ==
  ASSUME IInv, NEW t \in Tabs, NEW k \in Jobs, Replaced(t, k),
         job[t][k].pc \in Locked, job'[t][k].pc \in {"idle", "settling"}, gitLock' = Nobody,
         filesLock' = IF job[t][k].pc \in Publishing THEN Nobody ELSE filesLock,
         tab' = tab, spent' \in SpentType, DOMAIN commits \subseteq DOMAIN commits',
         RepoI', QuietI'
  PROVE  IInv'
<1>0. HandleTypes /\ LocksI /\ JobsI  BY DEF IInv
<1>1. gitLock = <<t, k>>  BY <1>0 DEF LocksI
<1>2. HandleTypes' /\ SavesKept  BY <1>0, HandlesKept
<1>3. LocksI'  BY <1>0, <1>1, <1>2, LocksFreed
<1>4. CaptureI(job[t][k])' /\ PublishI(job[t][k])'
  <2>1. job'[t][k].pc \in {"idle", "waiting", "settling"} /\ job'[t][k].pc # "waiting"  OBVIOUS
  <2>. QED  BY <2>1, IdleJobs
<1>5. JobsI'  BY <1>0, <1>1, <1>4, JobsAlone
<1>. QED  BY <1>2, <1>3, <1>5 DEF IInv

LEMMA FaultQuiet ==
  ASSUME HandleTypes, FailsNow
  PROVE  spent' \in SpentType /\ QuietI'
  BY FaultSpent DEF QuietI

LEMMA CaptureFailsStep ==
  ASSUME IInv, NEW t \in Tabs, NEW k \in Jobs, CaptureFails(t, k)
  PROVE  IInv'
<1>0. RepoI /\ HandleTypes /\ LocksI /\ JobsI  BY DEF IInv
<1>1. /\ job[t][k].pc = "capture" /\ FailsNow /\ Set(t, k, Done(k)) /\ gitLock' = Nobody
      /\ UNCHANGED <<files, repository, users>> /\ filesLock' = filesLock /\ tab' = tab
  BY DEF CaptureFails, Released
<1>2. Replaced(t, k) /\ job'[t][k].pc \in {"idle", "settling"}
  BY <1>0, <1>1, DoneSet
<1>3. spent' \in SpentType /\ QuietI'  BY <1>0, <1>1, FaultQuiet
<1>4. RepoI'  BY <1>0, <1>1, RepositoryKept
<1>5. DOMAIN commits \subseteq DOMAIN commits'  BY <1>1 DEF repository
<1>6. job[t][k].pc \in Locked /\ job[t][k].pc \notin Publishing
  BY <1>1 DEF Locked, Publishing
<1>7. filesLock' = IF job[t][k].pc \in Publishing THEN Nobody ELSE filesLock
  BY <1>1, <1>6
<1>. QED  BY <1>1, <1>2, <1>3, <1>4, <1>5, <1>6, <1>7, FreedStep

LEMMA IndexResetStep ==
  ASSUME IInv, NEW t \in Tabs, NEW k \in Jobs, IndexReset(t, k)
  PROVE  IInv'
<1>0. RepoI /\ HandleTypes /\ LocksI /\ JobsI  BY DEF IInv
<1>1. /\ job[t][k].pc = "index" /\ Set(t, k, Done(k)) /\ gitLock' = Nobody
      /\ UNCHANGED <<files, branch, record, commits, mine, written>>
      /\ filesLock' = filesLock /\ tab' = tab
  BY DEF IndexReset, Released, users
<1>2. /\ Replaced(t, k) /\ job'[t][k].pc \in {"idle", "settling"}
      /\ k = "auto" => job'[t][k].pc = "settling"
      /\ CaptureI(job[t][k])' /\ PublishI(job[t][k])'
  BY <1>0, <1>1, DoneSet
<1>3. job[t][k].next \in DOMAIN commits
  <2>1. PublishI(job[t][k])  BY <1>0 DEF JobsI
  <2>. QED  BY <1>1, <2>1 DEF PublishI
<1>4. /\ index' \in DOMAIN commits /\ tracking' \in DOMAIN commits
      /\ remote' \in DOMAIN commits
  BY <1>0, <1>3 DEF IndexReset, refs, RepoI, RepoTypes
<1>5. spent' \in SpentType /\ (spent'.faults # 0 \/ spent'.faults = spent.faults)
  BY <1>0, WorksSpent, FaultSpent DEF IndexReset
<1>6. job[t][k].pc \in Locked /\ job[t][k].pc \notin Publishing
  BY <1>1 DEF Locked, Publishing
<1>7. filesLock' = IF job[t][k].pc \in Publishing THEN Nobody ELSE filesLock
  BY <1>1, <1>6
<1>8. CASE spent'.faults # 0
  <2>1. QuietI'  BY <1>8 DEF QuietI
  <2>2. RepoI'  BY <1>0, <1>1, <1>4, RepoKept
  <2>. QED  BY <1>1, <1>2, <1>5, <1>6, <1>7, <2>1, <2>2, FreedStep
<1>9. CASE spent'.faults = spent.faults
  <2>1. gitLock = <<t, k>>  BY <1>0, <1>6 DEF LocksI
  <2>2. HandleTypes' /\ SavesKept  BY <1>0, <1>1, <1>2, <1>5, HandlesKept
  <2>3. LocksI'  BY <1>0, <1>1, <1>2, <1>7, <2>1, <2>2, LocksFreed
  <2>4. Calm(job[t][k]) /\ Calm(job[t][k])'
    BY <1>1, <1>2 DEF Calm, Capturing, Publishing
  <2>5. k = "auto" => job'[t]["auto"].pc # "idle"  BY <1>2
  <2>. QED
    BY <1>1, <1>2, <1>4, <1>9, <2>2, <2>3, <2>4, <2>5, CalmStep
<1>. QED  BY <1>5, <1>8, <1>9

LEMMA SeenWith ==
  ASSUME NEW s \in Seen, NEW p \in Paths, NEW c \in Contents
  PROVE  [q \in DOMAIN s \cup {p} |-> IF q = p THEN c ELSE s[q]] \in Seen
<1>1. PICK S \in SUBSET Paths : s \in [S -> Contents]  BY DEF Seen
<1>2. DOMAIN s = S /\ \A q \in S : s[q] \in Contents  BY <1>1
<1>3. [q \in DOMAIN s \cup {p} |-> IF q = p THEN c ELSE s[q]] \in [S \cup {p} -> Contents]
  BY <1>2
<1>4. S \cup {p} \in SUBSET Paths  OBVIOUS
<1>. QED  BY <1>3, <1>4 DEF Seen

LEMMA CaptureFileStep ==
  ASSUME IInv, NEW t \in Tabs, NEW k \in Jobs, NEW p \in Paths, CaptureFile(t, k, p)
  PROVE  IInv'
<1>. DEFINE j == job[t][k]
            seen == [q \in DOMAIN j.seen \cup {p} |-> IF q = p THEN files[p] ELSE j.seen[q]]
            new == [j EXCEPT !.seen = seen]
<1>0. RepoI /\ HandleTypes /\ LocksI /\ JobsI  BY DEF IInv
<1>1. /\ j.pc = "capture" /\ Set(t, k, new)
      /\ UNCHANGED <<files, repository, users>> /\ UNCHANGED locks
      /\ tab' = tab /\ spent' = spent
  BY DEF CaptureFile
<1>2. j \in JobType  BY <1>0, JobTyped
<1>3. files[p] \in Contents /\ files \in Trees  BY <1>0 DEF RepoI, RepoTypes, Trees
<1>4. j.seen \in Seen  BY <1>2 DEF JobType
<1>5. /\ DOMAIN seen = DOMAIN j.seen \cup {p} /\ seen[p] = files[p]
      /\ \A q \in DOMAIN j.seen : q # p => seen[q] = j.seen[q]
  OBVIOUS
<1>6. seen \in Seen
  <2>. HIDE DEF j
  <2>. QED  BY <1>3, <1>4, SeenWith
<1>. HIDE DEF seen
<1>7. /\ new \in JobType /\ new.pc = "capture" /\ new.kind = j.kind
      /\ new.expected = j.expected /\ new.next = j.next /\ new.applied = j.applied
      /\ new.seen = seen
  BY <1>1, <1>2, <1>6 DEF JobType
<1>. HIDE DEF new
<1>8. job'[t][k] = new /\ Replaced(t, k)  BY <1>0, <1>1, <1>7, SetReplaces
<1>9. /\ UNCHANGED <<files, branch, record, commits, mine, written>>
      /\ index' \in DOMAIN commits /\ tracking' \in DOMAIN commits
      /\ remote' \in DOMAIN commits
  BY <1>0, <1>1, RefsKept
<1>10. RepoI'  BY <1>0, <1>9, RepoKept
<1>11. gitLock' = gitLock /\ filesLock' = filesLock  BY <1>1 DEF locks
<1>12. spent' \in SpentType  BY <1>0, <1>1 DEF HandleTypes
<1>13. HandleTypes' /\ SavesKept  BY <1>0, <1>1, <1>8, <1>11, <1>12, HandlesKept
<1>14. LocksI'
  <2>1. /\ job'[t][k].pc \in Locked <=> job[t][k].pc \in Locked
        /\ job'[t][k].pc \in Publishing <=> job[t][k].pc \in Publishing
    BY <1>1, <1>7, <1>8
  <2>2. k = "auto" => AutoI(job[t][k])'
    <3>1. k = "auto" => AutoI(j)  BY <1>0 DEF LocksI
    <3>. QED  BY <1>1, <1>7, <1>8, <3>1 DEF AutoI
  <2>. QED  BY <1>0, <1>1, <1>8, <1>13, <2>1, <2>2, LocksKept
<1>15. CaptureI(j)  BY <1>0 DEF JobsI
<1>16. CaptureI(job[t][k])'
  <2>1. /\ record.state = "none" /\ branch = j.expected
        /\ j.kind \in {"pull", "merge"} => j.next \in DOMAIN commits
        /\ j.kind \in {"commit", "pull", "merge"} /\ ~j.applied
        /\ \A q \in DOMAIN j.seen : /\ files[q] = j.seen[q] \/ Mine(q)
                                    /\ j.seen[q] = Tree(branch)[q] \/ j.seen[q] \in written[q]
    BY <1>1, <1>15 DEF CaptureI
  <2>2. files[p] = Tree(branch)[p] \/ files[p] \in written[p]
    BY <1>0, <2>1 DEF RepoI, FilesI, Mine
  <2>3. \A q \in DOMAIN seen : /\ files[q] = seen[q] \/ Mine(q)
                               /\ seen[q] = Tree(branch)[q] \/ seen[q] \in written[q]
    BY <1>5, <2>1, <2>2
  <2>. HIDE DEF j
  <2>. QED  BY <1>7, <1>8, <1>9, <2>1, <2>3 DEF CaptureI, Mine, Tree
<1>17. PublishI(job[t][k])'  BY <1>7, <1>8 DEF PublishI, Publishing
<1>18. JobsI'  BY <1>0, <1>8, <1>9, <1>16, <1>17, JobsKept
<1>19. QuietI'
  <2>. SUFFICES ASSUME spent.faults = 0 PROVE QuietTabs' /\ QuietRecord' /\ QuietFiles'
    BY <1>1 DEF QuietI
  <2>1. QuietTabs /\ QuietRecord /\ QuietFiles  BY DEF IInv, QuietI
  <2>2. QuietTabs'
    <3>1. /\ k = "auto" => job'[t]["auto"].pc # "idle"
          /\ k = "ask" => (job'[t]["ask"].pc \in Publishing => job'[t]["ask"].kind # "recover")
      BY <1>7, <1>8 DEF Publishing
    <3>. QED  BY <1>1, <1>8, <2>1, <3>1, QuietTabsKept
  <2>3. QuietRecord'
    BY <1>1, <1>15, <1>9 DEF QuietRecord, CaptureI
  <2>4. ASSUME NEW q \in Paths, ~Pending(q)
        PROVE  SeenNow(q)' /\ (Busy' \/ files'[q] = Tree(branch)'[q])
    <3>1. SeenNow(q) /\ (Busy \/ files[q] = Tree(branch)[q])
      BY <2>1, <2>4 DEF QuietFiles
    <3>2. SeenNow(q)'
      <4>1. ASSUME NEW u \in Tabs, NEW l \in Jobs, Capturing(job[u][l])',
                   q \in DOMAIN job'[u][l].seen
            PROVE  job'[u][l].seen[q] = files'[q]
        <5>1. CASE u # t \/ l # k
          <6>1. job'[u][l] = job[u][l]  BY <1>8, <5>1 DEF Replaced
          <6>. QED  BY <1>9, <3>1, <4>1, <6>1 DEF SeenNow, Capturing
        <5>2. CASE u = t /\ l = k /\ q = p
          BY <1>5, <1>7, <1>8, <1>9, <5>2
        <5>3. CASE u = t /\ l = k /\ q # p
          <6>1. q \in DOMAIN j.seen /\ seen[q] = j.seen[q]
            BY <1>5, <1>7, <1>8, <4>1, <5>3
          <6>2. Capturing(j)  BY <1>1, <1>7, <1>8, <4>1, <5>3 DEF Capturing
          <6>3. j.seen[q] = files[q]  BY <3>1, <6>1, <6>2 DEF SeenNow
          <6>. QED  BY <1>7, <1>8, <1>9, <5>3, <6>1, <6>3
        <5>. QED  BY <5>1, <5>2, <5>3
      <4>. QED  BY <4>1 DEF SeenNow
    <3>3. ASSUME Busy PROVE Busy'
      <4>1. PICK u \in Tabs, l \in Jobs : Capturing(job[u][l]) \/ job[u][l].pc \in Publishing
        BY <3>3 DEF Busy
      <4>2. Capturing(job[u][l])' \/ job'[u][l].pc \in Publishing
        <5>1. CASE u # t \/ l # k
          <6>1. job'[u][l] = job[u][l]  BY <1>8, <5>1 DEF Replaced
          <6>. QED  BY <4>1, <6>1 DEF Capturing
        <5>2. CASE u = t /\ l = k
          BY <1>1, <1>7, <1>8, <4>1, <5>2 DEF Capturing
        <5>. QED  BY <5>1, <5>2
      <4>. QED  BY <4>2 DEF Busy
    <3>. QED  BY <1>9, <3>1, <3>2, <3>3 DEF Tree
  <2>5. QuietFiles'
    <3>1. \A q \in Paths : Pending(q)' <=> Pending(q)  BY <1>1, PendingKept
    <3>. QED  BY <2>4, <3>1 DEF QuietFiles
  <2>. QED  BY <2>2, <2>3, <2>5
<1>. QED  BY <1>10, <1>13, <1>14, <1>18, <1>19 DEF IInv

(* What a commit adds: its tree, its parents' pasts and itself, and        *)
(* nothing else.                                                           *)
Grew(tree, parents, by) ==
    /\ commits' \in Seq(CommitType) /\ Len(commits') = Len(commits) + 1
    /\ \A c \in DOMAIN commits : c \in DOMAIN commits' /\ commits'[c] = commits[c]
    /\ Len(commits) + 1 \in DOMAIN commits'
    /\ \A c \in DOMAIN commits' : c \in DOMAIN commits \/ c = Len(commits) + 1
    /\ commits'[Len(commits) + 1].tree = tree /\ commits'[Len(commits) + 1].by = by
    /\ commits'[Len(commits) + 1].from = branch
    /\ \A c \in parents : Past(c) \subseteq commits'[Len(commits) + 1].past
    /\ CommitsI'

LEMMA AddCommitGrows ==
  ASSUME RepoI, NEW tree \in Trees, NEW parents \in SUBSET (DOMAIN commits),
         branch \in parents, NEW by \in {"checkpoint", "merge"},
         commits' = AddCommit(tree, parents, by)
  PROVE  Grew(tree, parents, by)
<1>. DEFINE n == Len(commits) + 1
            past == (UNION {Past(c) : c \in parents}) \cup {n}
            from == CHOOSE c \in parents : c = branch \/ branch \notin parents
            new == [tree |-> tree, by |-> by, past |-> past, from |-> from]
<1>1. commits \in Seq(CommitType) /\ CommitsI /\ branch \in DOMAIN commits
  BY DEF RepoI, RepoTypes
<1>2. /\ Len(commits) \in Nat /\ DOMAIN commits = 1..Len(commits) /\ n \in Nat
      /\ n \notin DOMAIN commits /\ \A c \in DOMAIN commits : c \in Nat /\ 1..c \subseteq 1..n
  BY <1>1
<1>3. from = branch /\ from \in Nat
  <2>1. \E c \in parents : c = branch \/ branch \notin parents  OBVIOUS
  <2>2. from \in parents /\ (from = branch \/ branch \notin parents)  BY <2>1
  <2>. QED  BY <1>1, <1>2, <2>2
<1>4. \A x : x \in past <=> x = n \/ \E c \in parents : x \in Past(c)
  OBVIOUS
<1>5. \A x \in past : x \in 1..n
  BY <1>1, <1>2, <1>4 DEF CommitsI
<1>6. past \in SUBSET Nat  BY <1>2, <1>5
<1>. HIDE DEF past, from
<1>7. new \in CommitType /\ new.past = past /\ new.from = branch /\ new.tree = tree /\ new.by = by
  BY <1>3, <1>6 DEF CommitType
<1>8. commits' = Append(commits, new)  BY DEF AddCommit, past, from
<1>. HIDE DEF new
<1>9. /\ commits' \in Seq(CommitType) /\ Len(commits') = n
      /\ commits'[n] = new /\ \A c \in DOMAIN commits : commits'[c] = commits[c]
      /\ DOMAIN commits' = 1..n
  BY <1>1, <1>2, <1>7, <1>8
<1>. HIDE DEF n
<1>10. \A c : c \in DOMAIN commits' <=> c \in DOMAIN commits \/ c = n
  BY <1>2, <1>9 DEF n
<1>11. CommitsI'
  <2>1. ASSUME NEW c \in DOMAIN commits
        PROVE  /\ commits'[c].by = "checkpoint" => commits'[c].from \in DOMAIN commits'
               /\ c \in commits'[c].past /\ commits'[c].past \subseteq 1..c
               /\ \A e \in commits'[c].past : commits'[e].past \subseteq commits'[c].past
    <3>1. /\ commits[c].by = "checkpoint" => commits[c].from \in DOMAIN commits
          /\ c \in commits[c].past /\ commits[c].past \subseteq 1..c
          /\ \A e \in commits[c].past : commits[e].past \subseteq commits[c].past
      BY <1>1 DEF CommitsI, Past
    <3>2. \A e \in commits[c].past : e \in DOMAIN commits  BY <1>2, <3>1
    <3>. QED  BY <1>9, <1>10, <3>1, <3>2
  <2>2. /\ new.by = "checkpoint" => new.from \in DOMAIN commits'
        /\ n \in new.past /\ new.past \subseteq 1..n
        /\ \A e \in new.past : commits'[e].past \subseteq new.past
    <3>1. branch \in DOMAIN commits'  BY <1>1, <1>10
    <3>2. n \in past /\ past \subseteq 1..n  BY <1>4, <1>5
    <3>3. ASSUME NEW e \in past PROVE commits'[e].past \subseteq past
      <4>1. CASE e = n  BY <1>7, <1>9, <4>1
      <4>2. CASE e # n
        <5>1. PICK c \in parents : e \in Past(c)  BY <1>4, <4>2
        <5>2. e \in DOMAIN commits /\ Past(e) \subseteq Past(c)
          BY <1>1, <1>2, <5>1 DEF CommitsI
        <5>3. commits'[e].past = Past(e)  BY <1>9, <5>2 DEF Past
        <5>4. \A x \in Past(c) : x \in past  BY <1>4
        <5>. QED  BY <5>2, <5>3, <5>4
      <4>. QED  BY <4>1, <4>2
    <3>. QED  BY <1>7, <3>1, <3>2, <3>3
  <2>3. \A c \in DOMAIN commits' :
               /\ commits'[c].by = "checkpoint" => commits'[c].from \in DOMAIN commits'
               /\ c \in commits'[c].past /\ commits'[c].past \subseteq 1..c
               /\ \A e \in commits'[c].past : commits'[e].past \subseteq commits'[c].past
    BY <1>9, <1>10, <2>1, <2>2
  <2>. QED  BY <2>3 DEF CommitsI, Past
<1>12. \A c \in parents : Past(c) \subseteq commits'[n].past
  BY <1>4, <1>7, <1>9
<1>13. /\ \A c \in DOMAIN commits : c \in DOMAIN commits' /\ commits'[c] = commits[c]
       /\ n \in DOMAIN commits' /\ \A c \in DOMAIN commits' : c \in DOMAIN commits \/ c = n
       /\ commits'[n].tree = tree /\ commits'[n].by = by /\ commits'[n].from = branch
  BY <1>7, <1>9, <1>10
<1>. QED  BY <1>9, <1>11, <1>12, <1>13 DEF Grew, n

(* A commit, and perhaps the branch moved to it, keeps what the repository *)
(* promises while no update is recorded.                                   *)
LEMMA GrownRepo ==
  ASSUME RepoI, NEW tree \in Trees, NEW parents \in SUBSET (DOMAIN commits),
         branch \in parents, NEW by \in {"checkpoint", "merge"}, Grew(tree, parents, by),
         record.state = "none",
         UNCHANGED <<files, record, mine, written, index, tracking, remote>>,
         \/ branch' = branch
         \/ branch' = Len(commits) + 1 /\ \A p \in Paths : files[p] = tree[p] \/ Mine(p),
         by = "checkpoint" =>
            \A p \in Paths : tree[p] = Tree(branch)[p] \/ tree[p] \in written[p]
  PROVE  RepoI'
<1>. DEFINE n == Len(commits) + 1
<1>0. RepoTypes /\ CommitsI /\ FilesI /\ NoSaveLost /\ CheckpointsAreMine  BY DEF RepoI
<1>1. /\ commits' \in Seq(CommitType) /\ Len(commits') = n
      /\ \A c \in DOMAIN commits : c \in DOMAIN commits' /\ commits'[c] = commits[c]
      /\ n \in DOMAIN commits' /\ \A c \in DOMAIN commits' : c \in DOMAIN commits \/ c = n
      /\ commits'[n].tree = tree /\ commits'[n].by = by /\ commits'[n].from = branch
      /\ \A c \in parents : Past(c) \subseteq commits'[n].past
      /\ CommitsI'
  BY DEF Grew
<1>2. RepoTypes'
  <2>1. Len(commits) \in Nat /\ Len(commits') = Len(commits) + 1  BY <1>0, <1>1 DEF RepoTypes
  <2>2. record'.expected \in 0..Len(commits') /\ record'.next \in 0..Len(commits')
    BY <1>0, <2>1 DEF RepoTypes
  <2>3. branch' \in DOMAIN commits'  BY <1>0, <1>1 DEF RepoTypes
  <2>4. /\ index' \in DOMAIN commits' /\ tracking' \in DOMAIN commits'
        /\ remote' \in DOMAIN commits'
    BY <1>0, <1>1 DEF RepoTypes
  <2>. QED  BY <1>0, <1>1, <2>2, <2>3, <2>4 DEF RepoTypes
<1>. HIDE DEF n
<1>3. RecordI'  BY DEF RecordI
<1>4. branch \in DOMAIN commits /\ commits'[branch] = commits[branch]
  BY <1>0, <1>1 DEF RepoTypes
<1>5. FilesI'
  <2>1. \A p \in Paths : files[p] = Tree(branch)[p] \/ Mine(p)  BY <1>0 DEF FilesI
  <2>2. \A p \in Paths : Mine(p)' <=> Mine(p)  BY DEF Mine
  <2>3. \A p \in Paths : files[p] = commits'[branch'].tree[p] \/ Mine(p)
    BY <1>1, <1>4, <2>1 DEF Tree, n
  <2>. QED  BY <2>2, <2>3 DEF FilesI, Tree
<1>6. NoSaveLost'
  <2>1. ASSUME NEW p \in Paths, files[p] # mine[p]
        PROVE  \E c \in Past(branch)' : Tree(c)'[p] = mine[p]
    <3>1. PICK c \in Past(branch) : Tree(c)[p] = mine[p]  BY <1>0, <2>1 DEF NoSaveLost
    <3>2. c \in DOMAIN commits
      <4>1. Past(branch) \subseteq 1..branch /\ branch \in Nat
        BY <1>0, <1>4 DEF CommitsI, RepoTypes
      <4>. QED  BY <1>0, <1>4, <3>1, <4>1 DEF RepoTypes
    <3>3. commits'[c] = commits[c]  BY <1>1, <3>2
    <3>4. c \in commits'[branch'].past
      <4>1. CASE branch' = branch  BY <1>4, <3>1, <4>1 DEF Past
      <4>2. CASE branch' = n
        <5>1. Past(branch) \subseteq commits'[n].past  BY <1>1
        <5>. QED  BY <3>1, <4>2, <5>1
      <4>. QED  BY <4>1, <4>2 DEF n
    <3>. QED  BY <3>1, <3>3, <3>4 DEF Past, Tree
  <2>. QED  BY <2>1 DEF NoSaveLost
<1>7. CheckpointsAreMine'
  <2>1. ASSUME NEW c \in DOMAIN commits', commits'[c].by = "checkpoint", NEW p \in Paths,
               commits'[c].tree[p] # commits'[commits'[c].from].tree[p]
        PROVE  commits'[c].tree[p] \in written[p]
    <3>1. CASE c \in DOMAIN commits
      <4>1. commits'[c] = commits[c]  BY <1>1, <3>1
      <4>2. commits[c].from \in DOMAIN commits  BY <1>0, <2>1, <3>1, <4>1 DEF CommitsI
      <4>3. commits'[commits[c].from] = commits[commits[c].from]  BY <1>1, <4>2
      <4>. QED  BY <1>0, <2>1, <3>1, <4>1, <4>3 DEF CheckpointsAreMine, Tree
    <3>2. CASE c = n
      <4>1. tree[p] # Tree(branch)[p] /\ by = "checkpoint" /\ commits'[c].tree = tree
        BY <1>1, <1>4, <2>1, <3>2 DEF Tree
      <4>. QED  BY <4>1
    <3>. QED  BY <1>1, <3>1, <3>2
  <2>. QED  BY <2>1 DEF CheckpointsAreMine, Tree
<1>. QED  BY <1>1, <1>2, <1>3, <1>5, <1>6, <1>7 DEF RepoI

LEMMA SeenTree ==
  ASSUME NEW s \in Seen, DOMAIN s = Paths
  PROVE  s \in Trees
<1>1. PICK S \in SUBSET Paths : s \in [S -> Contents]  BY DEF Seen
<1>. QED  BY <1>1 DEF Trees

(* Only the holder of the Git lock captures.                               *)
LEMMA NobodyElseCaptures ==
  ASSUME LocksI', NEW t \in Tabs, NEW k \in Jobs, gitLock' \in {<<t, k>>, Nobody},
         job'[t][k].pc # "capture"
  PROVE  \A p \in Paths : SeenNow(p)'
<1>1. ASSUME NEW u \in Tabs, NEW l \in Jobs PROVE job'[u][l].pc # "capture"
  <2>. SUFFICES ASSUME job'[u][l].pc = "capture" PROVE FALSE
    OBVIOUS
  <2>1. gitLock' = <<u, l>>  BY DEF LocksI, Locked
  <2>. QED  BY <2>1, LockNames
<1>. QED  BY <1>1 DEF SeenNow, Capturing

LEMMA CommitBuiltStep ==
  ASSUME IInv, NEW t \in Tabs, NEW k \in Jobs, CommitBuilt(t, k)
  PROVE  IInv'
<1>. DEFINE j == job[t][k]
            n == Len(commits) + 1
            to(c) == [j EXCEPT !.pc = "index", !.next = c]
<1>0. RepoI /\ HandleTypes /\ LocksI /\ JobsI  BY DEF IInv
<1>1. /\ j.pc = "capture" /\ j.kind = "commit" /\ DOMAIN j.seen = Paths
      /\ UNCHANGED <<files, index, refs, record, users>> /\ filesLock' = filesLock /\ tab' = tab
  BY DEF CommitBuilt, Captured
<1>2. /\ UNCHANGED <<files, record, mine, written, index, tracking, remote>>
      /\ files' = files /\ record' = record /\ mine' = mine /\ written' = written
  BY <1>1 DEF refs, users
<1>3. j \in JobType /\ gitLock = <<t, k>>
  BY <1>0, <1>1, JobTyped DEF LocksI, Locked
<1>4. /\ record.state = "none" /\ branch = j.expected
      /\ \A p \in Paths : /\ files[p] = j.seen[p] \/ Mine(p)
                          /\ j.seen[p] = Tree(branch)[p] \/ j.seen[p] \in written[p]
  <2>1. CaptureI(j)  BY <1>0 DEF JobsI
  <2>. QED  BY <1>1, <2>1 DEF CaptureI
<1>5. j.seen \in Trees
  <2>1. j.seen \in Seen  BY <1>3 DEF JobType
  <2>. HIDE DEF j
  <2>. QED  BY <1>1, <2>1, SeenTree
<1>6. n \in Nat /\ branch \in Nat /\ branch \in DOMAIN commits /\ commits \in Seq(CommitType)
  BY <1>0 DEF RepoI, RepoTypes
<1>7. job[t][k].pc \in Locked /\ job[t][k].pc \notin Publishing
  BY <1>1 DEF Locked, Publishing
<1>8. {branch} \in SUBSET (DOMAIN commits) /\ branch \in {branch}
  BY <1>6
<1>9. ASSUME commits' = AddCommit(j.seen, {j.expected}, "checkpoint"), branch' = n
      PROVE  /\ RepoI' /\ Grew(j.seen, {branch}, "checkpoint")
             /\ DOMAIN commits \subseteq DOMAIN commits'
  <2>1. commits' = AddCommit(j.seen, {branch}, "checkpoint")  BY <1>4, <1>9
  <2>2. /\ branch' = Len(commits) + 1
        /\ \A p \in Paths : files[p] = j.seen[p] \/ Mine(p)
        /\ \A p \in Paths : j.seen[p] = Tree(branch)[p] \/ j.seen[p] \in written[p]
    BY <1>4, <1>9
  <2>. HIDE DEF j
  <2>3. Grew(j.seen, {branch}, "checkpoint")  BY <1>0, <1>5, <1>8, <2>1, AddCommitGrows
  <2>4. RepoI'  BY <1>0, <1>2, <1>4, <1>5, <1>8, <2>2, <2>3, GrownRepo
  <2>. QED  BY <2>3, <2>4 DEF Grew
<1>10. ASSUME branch' = branch, commits' = commits
       PROVE  RepoI' /\ DOMAIN commits \subseteq DOMAIN commits'
  <2>1. UNCHANGED <<files, branch, record, commits, mine, written>>  BY <1>2, <1>10
  <2>2. /\ index' \in DOMAIN commits /\ tracking' \in DOMAIN commits
        /\ remote' \in DOMAIN commits
    BY <1>0, <1>2 DEF RepoI, RepoTypes
  <2>. QED  BY <1>0, <1>10, <2>1, <2>2, RepoKept
<1>11. ASSUME NEW c \in Nat, c \in DOMAIN commits', branch' = c, commits'[c].tree = j.seen,
              Set(t, k, to(c)), spent' = spent, gitLock' = gitLock, RepoI',
              DOMAIN commits \subseteq DOMAIN commits'
       PROVE  IInv'
  <2>0. /\ c \in DOMAIN commits' /\ branch' = c /\ commits'[c].tree = j.seen
        /\ Set(t, k, to(c)) /\ spent' = spent /\ gitLock' = gitLock
        /\ DOMAIN commits \subseteq DOMAIN commits' /\ RepoI'
    BY <1>11
  <2>1. to(c) \in JobType /\ to(c).pc = "index" /\ to(c).next = c /\ to(c).kind = "commit"
    BY <1>1, <1>3 DEF JobType, JobPcs
  <2>2. job'[t][k].pc = "index" /\ job'[t][k].next = c /\ job'[t][k].kind = "commit"
        /\ Replaced(t, k)
    <3>. HIDE DEF to
    <3>1. job'[t][k] = to(c) /\ Replaced(t, k)  BY <1>0, <2>0, <2>1, SetReplaces
    <3>. QED  BY <2>1, <3>1
  <2>3. spent' \in SpentType  BY <1>0, <2>0 DEF HandleTypes
  <2>4. HandleTypes' /\ SavesKept  BY <1>0, <1>1, <2>0, <2>2, <2>3, HandlesKept
  <2>5. LocksI'
    <3>1. /\ job'[t][k].pc \in Locked <=> job[t][k].pc \in Locked
          /\ job'[t][k].pc \in Publishing <=> job[t][k].pc \in Publishing
      BY <1>1, <2>2 DEF Locked, Publishing
    <3>2. AutoI(job[t][k])'  BY <2>2 DEF AutoI
    <3>3. UNCHANGED locks  BY <1>1, <2>0 DEF locks
    <3>. QED  BY <1>0, <2>2, <2>4, <3>1, <3>2, <3>3, LocksKept
  <2>6. CaptureI(job[t][k])' /\ PublishI(job[t][k])'
    BY <2>0, <2>2 DEF CaptureI, PublishI, Publishing
  <2>7. JobsI'  BY <1>0, <1>3, <2>0, <2>2, <2>6, JobsAlone
  <2>8. QuietI'
    <3>. SUFFICES ASSUME spent.faults = 0 PROVE QuietTabs' /\ QuietRecord' /\ QuietFiles'
      BY <2>0 DEF QuietI
    <3>1. QuietTabs /\ QuietFiles  BY DEF IInv, QuietI
    <3>2. QuietTabs'
      <4>1. /\ k = "auto" => job'[t]["auto"].pc # "idle"
            /\ k = "ask" => (job'[t]["ask"].pc \in Publishing => job'[t]["ask"].kind # "recover")
        BY <2>2 DEF Publishing
      <4>. QED  BY <1>1, <2>2, <3>1, <4>1, QuietTabsKept
    <3>3. QuietRecord'  BY <1>2, <1>4 DEF QuietRecord
    <3>4. \A p \in Paths : SeenNow(p)'
      <4>1. gitLock' \in {<<t, k>>, Nobody} /\ job'[t][k].pc # "capture"
        BY <1>3, <2>0, <2>2
      <4>. QED  BY <2>5, <4>1, NobodyElseCaptures
    <3>5. ASSUME NEW p \in Paths, ~Pending(p) PROVE files'[p] = Tree(branch)'[p]
      <4>1. SeenNow(p)  BY <3>1, <3>5 DEF QuietFiles
      <4>2. j.seen[p] = files[p]  BY <1>1, <4>1 DEF SeenNow, Capturing
      <4>. QED  BY <1>2, <2>0, <4>2 DEF Tree
    <3>6. \A p \in Paths : Pending(p)' <=> Pending(p)  BY <1>1, PendingKept
    <3>7. QuietFiles'  BY <3>4, <3>5, <3>6 DEF QuietFiles
    <3>. QED  BY <3>2, <3>3, <3>7
  <2>. QED  BY <2>0, <2>4, <2>5, <2>7, <2>8 DEF IInv
<1>12. CASE /\ j.seen = Tree(j.expected) /\ Works /\ Set(t, k, to(j.expected))
            /\ UNCHANGED <<branch, commits, gitLock>>
  <2>0. /\ j.seen = Tree(branch) /\ spent' = spent /\ Set(t, k, to(branch))
        /\ branch' = branch /\ commits' = commits /\ gitLock' = gitLock
    BY <1>4, <1>12 DEF Works
  <2>1. RepoI' /\ DOMAIN commits \subseteq DOMAIN commits'  BY <1>10, <2>0
  <2>2. branch \in DOMAIN commits' /\ commits'[branch].tree = j.seen
    BY <1>6, <2>0 DEF Tree
  <2>. QED  BY <1>6, <1>11, <2>0, <2>1, <2>2
<1>13. CASE /\ Works /\ commits' = AddCommit(j.seen, {j.expected}, "checkpoint")
            /\ branch' = n /\ Set(t, k, to(n)) /\ UNCHANGED gitLock
  <2>0. /\ commits' = AddCommit(j.seen, {j.expected}, "checkpoint") /\ branch' = n
        /\ spent' = spent /\ Set(t, k, to(n)) /\ gitLock' = gitLock
    BY <1>13 DEF Works
  <2>1. /\ RepoI' /\ Grew(j.seen, {branch}, "checkpoint")
        /\ DOMAIN commits \subseteq DOMAIN commits'
    BY <1>9, <2>0
  <2>2. n \in DOMAIN commits' /\ commits'[n].tree = j.seen
    BY <2>1 DEF Grew
  <2>. QED  BY <1>6, <1>11, <2>0, <2>1, <2>2
<1>14. CASE /\ FailsNow
            /\ \/ UNCHANGED <<branch, commits>>
               \/ /\ commits' = AddCommit(j.seen, {j.expected}, "checkpoint")
                  /\ branch' = n
            /\ Set(t, k, Done(k)) /\ Released
  <2>0. FailsNow /\ Set(t, k, Done(k)) /\ gitLock' = Nobody  BY <1>14 DEF Released
  <2>1. RepoI' /\ DOMAIN commits \subseteq DOMAIN commits'
    BY <1>9, <1>10, <1>14
  <2>2. Replaced(t, k) /\ job'[t][k].pc \in {"idle", "settling"}
    BY <1>0, <2>0, DoneSet
  <2>3. spent' \in SpentType /\ QuietI'  BY <1>0, <2>0, FaultQuiet
  <2>4. filesLock' = IF job[t][k].pc \in Publishing THEN Nobody ELSE filesLock
    BY <1>1, <1>7
  <2>. QED  BY <1>1, <1>7, <2>0, <2>1, <2>2, <2>3, <2>4, FreedStep
<1>15. \/ /\ j.seen = Tree(j.expected) /\ Works /\ Set(t, k, to(j.expected))
          /\ UNCHANGED <<branch, commits, gitLock>>
       \/ /\ Works /\ commits' = AddCommit(j.seen, {j.expected}, "checkpoint")
          /\ branch' = n /\ Set(t, k, to(n)) /\ UNCHANGED gitLock
       \/ /\ FailsNow
          /\ \/ UNCHANGED <<branch, commits>>
             \/ /\ commits' = AddCommit(j.seen, {j.expected}, "checkpoint")
                /\ branch' = n
          /\ Set(t, k, Done(k)) /\ Released
  BY DEF CommitBuilt
<1>. QED  BY <1>12, <1>13, <1>14, <1>15

(***************************************************************************)
(* Incoming updates                                                        *)
(***************************************************************************)

LEMMA MergedTree ==
  ASSUME RepoI, HandleTypes, NEW base, NEW ours \in DOMAIN commits, NEW theirs \in DOMAIN commits
  PROVE  Merged(base, ours, theirs, Fresh) \in Trees
<1>1. commits[ours].tree \in Trees /\ commits[theirs].tree \in Trees
  <2>1. commits[ours] \in CommitType /\ commits[theirs] \in CommitType
    BY DEF RepoI, RepoTypes
  <2>. QED  BY <2>1 DEF CommitType
<1>2. Fresh \in Contents
  <2>1. spent.saves \in Nat /\ spent.merges \in Nat  BY DEF HandleTypes, SpentType
  <2>. QED  BY <2>1 DEF Fresh, Contents
<1>. QED  BY <1>1, <1>2 DEF Merged, Trees, Tree

LEMMA IncomingPreparedStep ==
  ASSUME IInv, NEW t \in Tabs, IncomingPrepared(t)
  PROVE  IInv'
<1>. DEFINE j == job[t]["ask"]
            n == Len(commits) + 1
            merged(base) == Merged(base, j.expected, j.next, Fresh)
            published == [j EXCEPT !.pc = "publish"]
            merging == [j EXCEPT !.pc = "publish", !.next = n]
<1>0. RepoI /\ HandleTypes /\ LocksI /\ JobsI  BY DEF IInv
<1>1. "ask" \in Jobs  BY DEF Jobs
<1>2. /\ j.pc = "capture" /\ j.kind \in {"pull", "merge"} /\ DOMAIN j.seen = Paths
      /\ UNCHANGED <<files, index, branch, refs, record, users>>
      /\ filesLock' = filesLock /\ tab' = tab
  BY DEF IncomingPrepared, Captured
<1>3. /\ UNCHANGED <<files, record, mine, written, index, tracking, remote>>
      /\ files' = files /\ record' = record /\ mine' = mine /\ written' = written
      /\ branch' = branch
  BY <1>2 DEF refs, users
<1>4. j \in JobType /\ gitLock = <<t, "ask">>
  BY <1>0, <1>1, <1>2, JobTyped DEF LocksI, Locked
<1>5. record.state = "none" /\ branch = j.expected /\ j.next \in DOMAIN commits /\ ~j.applied
  <2>1. CaptureI(j)  BY <1>0, <1>1 DEF JobsI
  <2>. QED  BY <1>2, <2>1 DEF CaptureI
<1>6. /\ branch \in DOMAIN commits /\ n \in Nat /\ commits \in Seq(CommitType)
      /\ index' \in DOMAIN commits /\ tracking' \in DOMAIN commits /\ remote' \in DOMAIN commits
  BY <1>0, <1>3 DEF RepoI, RepoTypes
<1>7. job[t]["ask"].pc \in Locked /\ job[t]["ask"].pc \notin Publishing /\ Calm(job[t]["ask"])
  BY <1>2 DEF Locked, Publishing, Calm, Capturing
<1>8. CASE Set(t, "ask", NoJob) /\ Released /\ UNCHANGED <<commits, spent>>
  <2>0. Set(t, "ask", NoJob) /\ gitLock' = Nobody /\ commits' = commits /\ spent' = spent
    BY <1>8 DEF Released
  <2>1. /\ Replaced(t, "ask") /\ job'[t]["ask"].pc = "idle"
        /\ CaptureI(job[t]["ask"])' /\ PublishI(job[t]["ask"])'
    BY <1>0, <1>1, <2>0, NoJobSet
  <2>2. spent' \in SpentType  BY <1>0, <2>0 DEF HandleTypes
  <2>3. HandleTypes' /\ SavesKept  BY <1>0, <1>1, <1>2, <2>0, <2>1, <2>2, HandlesKept
  <2>4. LocksI'
    <3>1. filesLock' = IF job[t]["ask"].pc \in Publishing THEN Nobody ELSE filesLock
      BY <1>2, <1>7
    <3>2. job'[t]["ask"].pc \in {"idle", "settling"}  BY <2>1
    <3>. QED  BY <1>0, <1>1, <1>4, <2>0, <2>1, <2>3, <3>1, <3>2, LocksFreed
  <2>5. Calm(job[t]["ask"])'  BY <2>1 DEF Calm, Capturing, Publishing
  <2>6. UNCHANGED <<files, branch, record, commits, mine, written>>  BY <1>3, <2>0
  <2>. QED
    BY <1>1, <1>2, <1>6, <1>7, <2>0, <2>1, <2>3, <2>4, <2>5, <2>6, CalmStep
<1>9. ASSUME NEW new \in JobType, Set(t, "ask", new), new.pc = "publish", gitLock' = gitLock,
             spent' \in SpentType
      PROVE  /\ Replaced(t, "ask") /\ job'[t]["ask"] = new
             /\ HandleTypes' /\ LocksI' /\ Calm(job[t]["ask"])'
  <2>0. Set(t, "ask", new) /\ new.pc = "publish" /\ gitLock' = gitLock /\ spent' \in SpentType
    BY <1>9
  <2>1. job'[t]["ask"] = new /\ Replaced(t, "ask")  BY <1>0, <1>1, <2>0, SetReplaces
  <2>2. HandleTypes' /\ SavesKept  BY <1>0, <1>1, <1>2, <2>0, <2>1, HandlesKept
  <2>3. LocksI'
    <3>1. /\ job'[t]["ask"].pc \in Locked <=> job[t]["ask"].pc \in Locked
          /\ job'[t]["ask"].pc \in Publishing <=> job[t]["ask"].pc \in Publishing
      BY <1>2, <2>0, <2>1 DEF Locked, Publishing
    <3>2. UNCHANGED locks  BY <1>2, <2>0 DEF locks
    <3>. QED  BY <1>0, <1>1, <2>1, <2>2, <3>1, <3>2, LocksKept
  <2>. QED  BY <2>0, <2>1, <2>2, <2>3 DEF Calm, Capturing, Publishing
<1>10. CASE /\ j.seen = Tree(j.expected) /\ j.expected \in Past(j.next)
            /\ Set(t, "ask", published) /\ UNCHANGED <<gitLock, commits, spent>>
  <2>0. /\ j.seen = Tree(j.expected) /\ j.expected \in Past(j.next)
        /\ Set(t, "ask", published) /\ gitLock' = gitLock /\ commits' = commits /\ spent' = spent
    BY <1>10
  <2>1. /\ published \in JobType /\ published.pc = "publish" /\ published.seen = j.seen
        /\ published.expected = j.expected /\ published.next = j.next
        /\ published.kind = j.kind /\ published.applied = j.applied
    BY <1>4 DEF JobType, JobPcs
  <2>2. spent' \in SpentType  BY <1>0, <2>0 DEF HandleTypes
  <2>. HIDE DEF published
  <2>3. /\ Replaced(t, "ask") /\ job'[t]["ask"] = published
        /\ HandleTypes' /\ LocksI' /\ Calm(job[t]["ask"])'
    BY <1>9, <2>0, <2>1, <2>2
  <2>4. CaptureI(job[t]["ask"])'  BY <2>1, <2>3 DEF CaptureI
  <2>5. PublishI(job[t]["ask"])'
    <3>1. /\ j.expected \in DOMAIN commits /\ j.next \in DOMAIN commits
          /\ j.kind # "recover" /\ ~j.applied
      BY <1>2, <1>5, <1>6
    <3>. HIDE DEF j
    <3>. QED  BY <2>0, <2>1, <2>3, <3>1 DEF PublishI, Publishing, Tree, Past
  <2>6. UNCHANGED <<files, branch, record, commits, mine, written>>  BY <1>3, <2>0
  <2>. QED
    BY <1>1, <1>2, <1>6, <1>7, <2>0, <2>3, <2>4, <2>5, <2>6, CalmStep
<1>11. ASSUME NEW base, NEW grown \in {0, 1}, j.seen = Tree(j.expected),
              commits' = AddCommit(merged(base), {j.expected, j.next}, "merge"),
              spent' = [spent EXCEPT !.merges = @ + grown],
              Set(t, "ask", merging), gitLock' = gitLock
       PROVE  IInv'
  <2>0. /\ j.seen = Tree(j.expected) /\ Set(t, "ask", merging) /\ gitLock' = gitLock
        /\ commits' = AddCommit(merged(base), {branch, j.next}, "merge")
    BY <1>5, <1>11
  <2>1. merged(base) \in Trees
    <3>1. j.expected \in DOMAIN commits /\ j.next \in DOMAIN commits  BY <1>5, <1>6
    <3>. HIDE DEF j
    <3>. QED  BY <1>0, <3>1, MergedTree
  <2>2. {branch, j.next} \in SUBSET (DOMAIN commits) /\ branch \in {branch, j.next}
    BY <1>5, <1>6
  <2>3. Grew(merged(base), {branch, j.next}, "merge")
    <3>. HIDE DEF j, merged
    <3>. QED  BY <1>0, <2>0, <2>1, <2>2, AddCommitGrows
  <2>4. RepoI'
    <3>. HIDE DEF j, merged
    <3>. QED  BY <1>0, <1>3, <1>5, <2>1, <2>2, <2>3, GrownRepo
  <2>5. /\ \A c \in DOMAIN commits : c \in DOMAIN commits' /\ commits'[c] = commits[c]
        /\ n \in DOMAIN commits' /\ Past(branch) \subseteq commits'[n].past
    BY <2>3 DEF Grew
  <2>6. spent' \in SpentType /\ spent'.faults = spent.faults
    <3>1. spent \in SpentType  BY <1>0 DEF HandleTypes
    <3>2. spent.merges + grown \in Nat  BY <3>1 DEF SpentType
    <3>. QED  BY <1>11, <3>1, <3>2 DEF SpentType
  <2>7. /\ merging \in JobType /\ merging.pc = "publish" /\ merging.seen = j.seen
        /\ merging.expected = j.expected /\ merging.next = n
        /\ merging.kind = j.kind /\ merging.applied = j.applied
    BY <1>4, <1>6 DEF JobType, JobPcs
  <2>. HIDE DEF merging
  <2>8. /\ Replaced(t, "ask") /\ job'[t]["ask"] = merging
        /\ HandleTypes' /\ LocksI' /\ Calm(job[t]["ask"])'
    BY <1>9, <2>0, <2>6, <2>7
  <2>9. CaptureI(job[t]["ask"])'  BY <2>7, <2>8 DEF CaptureI
  <2>10. PublishI(job[t]["ask"])'
    <3>1. /\ branch \in DOMAIN commits' /\ commits'[branch].tree = Tree(branch)
          /\ branch \in Past(branch)
      BY <1>0, <1>6, <2>5 DEF RepoI, CommitsI, Tree
    <3>2. branch \in commits'[n].past  BY <2>5, <3>1
    <3>3. j.expected = branch /\ j.kind # "recover" /\ ~j.applied /\ j.seen = Tree(branch)
      BY <1>2, <1>5, <2>0
    <3>. HIDE DEF j, n
    <3>. QED  BY <2>5, <2>7, <2>8, <3>1, <3>2, <3>3 DEF PublishI, Publishing, Tree, Past
  <2>11. JobsI'
    <3>1. DOMAIN commits \subseteq DOMAIN commits'  BY <2>5
    <3>. QED  BY <1>0, <1>1, <1>4, <2>8, <2>9, <2>10, <3>1, JobsAlone
  <2>12. QuietI'
    <3>. SUFFICES ASSUME spent.faults = 0 PROVE QuietTabs' /\ QuietRecord' /\ QuietFiles'
      BY <2>6 DEF QuietI
    <3>1. QuietTabs /\ QuietRecord /\ QuietFiles  BY DEF IInv, QuietI
    <3>2. QuietTabs'
      <4>1. job'[t]["ask"].pc \in Publishing => job'[t]["ask"].kind # "recover"
        BY <2>7, <2>8 DEF Publishing
      <4>. QED  BY <1>1, <1>2, <2>8, <3>1, <4>1, QuietTabsKept
    <3>3. QuietRecord'  BY <1>3, <1>5 DEF QuietRecord
    <3>4. QuietFiles'
      <4>1. commits'[branch] = commits[branch]  BY <1>6, <2>5
      <4>2. \A p \in Paths : Pending(p) => Pending(p)'  BY <1>2, PendingKept
      <4>. QED  BY <1>1, <1>3, <1>7, <2>8, <3>1, <4>1, <4>2, CalmQuiet
    <3>. QED  BY <3>2, <3>3, <3>4
  <2>. QED  BY <2>4, <2>8, <2>11, <2>12 DEF IInv
<1>12. \/ Set(t, "ask", NoJob) /\ Released /\ UNCHANGED <<commits, spent>>
       \/ /\ j.seen = Tree(j.expected) /\ j.expected \in Past(j.next)
          /\ Set(t, "ask", published) /\ UNCHANGED <<gitLock, commits, spent>>
       \/ \E base \in Bases(j.expected, j.next) :
            /\ j.seen = Tree(j.expected)
            /\ commits' = AddCommit(merged(base), {j.expected, j.next}, "merge")
            /\ spent' = [spent EXCEPT !.merges =
                  @ + (IF Competing(base, j.expected, j.next) = {} THEN 0 ELSE 1)]
            /\ Set(t, "ask", merging) /\ gitLock' = gitLock
  BY DEF IncomingPrepared
<1>13. ASSUME NEW base \in Bases(j.expected, j.next), j.seen = Tree(j.expected),
              commits' = AddCommit(merged(base), {j.expected, j.next}, "merge"),
              spent' = [spent EXCEPT !.merges =
                  @ + (IF Competing(base, j.expected, j.next) = {} THEN 0 ELSE 1)],
              Set(t, "ask", merging), gitLock' = gitLock
       PROVE  IInv'
  <2>. DEFINE grown == IF Competing(base, j.expected, j.next) = {} THEN 0 ELSE 1
  <2>1. grown \in {0, 1}  OBVIOUS
  <2>2. spent' = [spent EXCEPT !.merges = @ + grown]  BY <1>13
  <2>3. /\ j.seen = Tree(j.expected)
        /\ commits' = AddCommit(merged(base), {j.expected, j.next}, "merge")
        /\ Set(t, "ask", merging) /\ gitLock' = gitLock
    BY <1>13
  <2>. HIDE DEF grown, merged, merging, j, n
  <2>. QED  BY <1>11, <2>1, <2>2, <2>3
<1>. HIDE DEF j, n, merged, published, merging
<1>. QED  BY <1>8, <1>10, <1>12, <1>13

(***************************************************************************)
(* Publication                                                             *)
(***************************************************************************)

LEMMA RecordChanged ==
  ASSUME RepoI, UNCHANGED <<files, index, branch, tracking, remote, commits, mine, written>>,
         record' \in RecordType, record'.expected \in 0..Len(commits),
         record'.next \in 0..Len(commits), RecordI', FilesI'
  PROVE  RepoI'
<1>1. RepoTypes'  BY DEF RepoI, RepoTypes
<1>2. CommitsI'  BY DEF RepoI, CommitsI, Past
<1>3. NoSaveLost'  BY DEF RepoI, NoSaveLost, Tree, Past
<1>4. CheckpointsAreMine'  BY DEF RepoI, CheckpointsAreMine, Tree
<1>. QED  BY <1>1, <1>2, <1>3, <1>4 DEF RepoI

(* A record that is taken away, or never became whole, over files that     *)
(* hold the branch's version or a user's.                                  *)
LEMMA RecordForgotten ==
  ASSUME RepoI, UNCHANGED <<files, index, branch, tracking, remote, commits, mine, written>>,
         record' \in {NoRecord, Unadmitted},
         \A p \in Paths : files[p] = Tree(branch)[p] \/ Mine(p)
  PROVE  RepoI'
<1>1. /\ record' \in RecordType /\ record'.state # "recorded"
      /\ record'.expected = 0 /\ record'.next = 0
  BY DEF NoRecord, Unadmitted, RecordType
<1>2. Len(commits) \in Nat  BY DEF RepoI, RepoTypes
<1>3. 0 \in 0..Len(commits)  BY <1>2
<1>4. RecordI'  BY <1>1 DEF RecordI
<1>5. FilesI'
  <2>1. \A p \in Paths : Mine(p)' <=> Mine(p)  BY DEF Mine
  <2>2. \A p \in Paths : files'[p] = Tree(branch)'[p] \/ Mine(p)'  BY <2>1 DEF Tree
  <2>. QED  BY <1>1, <2>2 DEF FilesI
<1>. QED  BY <1>1, <1>3, <1>4, <1>5, RecordChanged

(* The record of an update to a clean folder.                              *)
LEMMA RecordMade ==
  ASSUME RepoI, UNCHANGED <<files, index, branch, tracking, remote, commits, mine, written>>,
         NEW expected \in DOMAIN commits, NEW next \in DOMAIN commits,
         record' = Recorded(expected, next), branch = expected,
         expected \in Past(next), files = Tree(expected)
  PROVE  RepoI'
<1>1. commits \in Seq(CommitType)  BY DEF RepoI, RepoTypes
<1>2. /\ record' \in RecordType /\ record'.state = "recorded"
      /\ record'.expected = expected /\ record'.next = next
  BY <1>1 DEF Recorded, RecordType
<1>3. expected \in 0..Len(commits) /\ next \in 0..Len(commits)  BY <1>1
<1>4. RecordI'  BY <1>2 DEF RecordI, Past
<1>5. FilesI'  BY <1>2 DEF FilesI, Tree
<1>. QED  BY <1>2, <1>3, <1>4, <1>5, RecordChanged

(* The steps that give the locks back with nothing failed and nothing      *)
(* published.                                                              *)
LEMMA CalmFreed ==
  ASSUME IInv, NEW t \in Tabs, Set(t, "ask", NoJob),
         job[t]["ask"].pc \in Locked \ Publishing, job[t]["ask"].pc # "capture",
         gitLock' = Nobody, filesLock' = filesLock, tab' = tab, spent' = spent,
         UNCHANGED <<files, index, branch, tracking, remote, record, commits, mine, written>>
  PROVE  IInv'
<1>0. RepoI /\ HandleTypes /\ LocksI /\ JobsI  BY DEF IInv
<1>1. "ask" \in Jobs  BY DEF Jobs
<1>2. /\ Replaced(t, "ask") /\ job'[t]["ask"].pc = "idle"
      /\ CaptureI(job[t]["ask"])' /\ PublishI(job[t]["ask"])'
  BY <1>0, <1>1, NoJobSet
<1>3. /\ UNCHANGED <<files, branch, record, commits, mine, written>>
      /\ index' \in DOMAIN commits /\ tracking' \in DOMAIN commits
      /\ remote' \in DOMAIN commits
  BY <1>0 DEF RepoI, RepoTypes
<1>4. spent' \in SpentType /\ spent'.faults = spent.faults  BY <1>0 DEF HandleTypes
<1>5. HandleTypes' /\ SavesKept  BY <1>0, <1>1, <1>2, <1>4, HandlesKept
<1>6. LocksI'
  <2>1. filesLock' = IF job[t]["ask"].pc \in Publishing THEN Nobody ELSE filesLock
    OBVIOUS
  <2>2. job'[t]["ask"].pc \in {"idle", "settling"}  BY <1>2
  <2>3. gitLock = <<t, "ask">>  BY <1>0, <1>1 DEF LocksI
  <2>. QED  BY <1>0, <1>1, <1>2, <1>5, <2>1, <2>2, <2>3, LocksFreed
<1>7. Calm(job[t]["ask"]) /\ Calm(job[t]["ask"])'
  BY <1>2 DEF Calm, Capturing, Publishing
<1>. QED  BY <1>1, <1>2, <1>3, <1>4, <1>5, <1>6, <1>7, CalmStep

(* A publication ends: whatever it left keeps the repository's promises.   *)
LEMMA EndsStep ==
  ASSUME IInv, NEW t \in Tabs, Ends(t), job[t]["ask"].pc \in Publishing, tab' = tab,
         spent' \in SpentType, DOMAIN commits \subseteq DOMAIN commits', RepoI', QuietI'
  PROVE  IInv'
<1>0. HandleTypes  BY DEF IInv
<1>1. "ask" \in Jobs  BY DEF Jobs
<1>2. Set(t, "ask", NoJob) /\ gitLock' = Nobody /\ filesLock' = Nobody
  BY DEF Ends, Released
<1>3. Replaced(t, "ask") /\ job'[t]["ask"].pc = "idle"
  BY <1>0, <1>1, <1>2, NoJobSet
<1>4. job[t]["ask"].pc \in Locked  BY DEF Locked, Publishing
<1>5. filesLock' = IF job[t]["ask"].pc \in Publishing THEN Nobody ELSE filesLock
  BY <1>2
<1>6. job'[t]["ask"].pc \in {"idle", "settling"}  BY <1>3
<1>. QED  BY <1>1, <1>2, <1>3, <1>4, <1>5, <1>6, FreedStep

(* A publication goes on.                                                  *)
LEMMA PublishesQuietly ==
  ASSUME IInv, NEW t \in Tabs, Replaced(t, "ask"), gitLock' = <<t, "ask">>,
         job'[t]["ask"].pc \in Publishing, tab' = tab, LocksI', spent' = spent,
         spent.faults = 0 => job'[t]["ask"].kind # "recover"
  PROVE  QuietI'
<1>. SUFFICES ASSUME spent.faults = 0 PROVE QuietTabs' /\ QuietRecord' /\ QuietFiles'
  BY DEF QuietI
<1>1. "ask" \in Jobs  BY DEF Jobs
<1>2. QuietTabs  BY DEF IInv, QuietI
<1>3. QuietTabs'  BY <1>1, <1>2, QuietTabsKept
<1>4. QuietRecord'  BY DEF QuietRecord
<1>5. QuietFiles'
  <2>1. Busy'  BY <1>1 DEF Busy
  <2>2. job'[t]["ask"].pc # "capture"  BY DEF Publishing
  <2>3. \A p \in Paths : SeenNow(p)'  BY <1>1, <2>2, NobodyElseCaptures
  <2>. QED  BY <2>1, <2>3 DEF QuietFiles
<1>. QED  BY <1>3, <1>4, <1>5

LEMMA AdmitStep ==
  ASSUME IInv, NEW t \in Tabs, Admit(t)
  PROVE  IInv'
<1>. DEFINE j == job[t]["ask"]
            new == [j EXCEPT !.pc = "apply", !.todo = Changed(j)]
<1>0. RepoI /\ HandleTypes /\ LocksI /\ JobsI  BY DEF IInv
<1>1. "ask" \in Jobs  BY DEF Jobs
<1>2. /\ j.pc = "publish" /\ filesLock = Nobody
      /\ UNCHANGED <<files, index, branch, refs, commits, users>> /\ tab' = tab
  BY DEF Admit
<1>3. UNCHANGED <<files, index, branch, tracking, remote, commits, mine, written>>
  BY <1>2 DEF refs, users
<1>4. j \in JobType /\ gitLock = <<t, "ask">>
  BY <1>0, <1>1, <1>2, JobTyped DEF LocksI, Locked
<1>5. /\ j.expected \in DOMAIN commits /\ j.next \in DOMAIN commits
      /\ j.seen = Tree(j.expected) /\ j.expected \in Past(j.next)
      /\ j.kind # "recover" /\ ~j.applied
  <2>1. PublishI(j)  BY <1>0, <1>1 DEF JobsI
  <2>. QED  BY <1>2, <2>1 DEF PublishI
<1>6. job[t]["ask"].pc \in Locked \ Publishing /\ job[t]["ask"].pc # "capture"
  BY <1>2 DEF Locked, Publishing
<1>7. CASE /\ Works /\ Set(t, "ask", NoJob) /\ Released /\ UNCHANGED <<record, filesLock>>
  <2>1. /\ Set(t, "ask", NoJob) /\ gitLock' = Nobody /\ filesLock' = filesLock /\ spent' = spent
        /\ UNCHANGED <<files, index, branch, tracking, remote, record, commits, mine, written>>
    BY <1>3, <1>7 DEF Works, Released
  <2>. QED  BY <1>2, <1>6, <2>1, CalmFreed
<1>8. ASSUME Admitted(j) PROVE branch = j.expected /\ files = Tree(j.expected)
  BY <1>5, <1>8 DEF Admitted
<1>9. ASSUME Admitted(j), record' = Recorded(j.expected, j.next) PROVE RepoI'
  <2>1. branch = j.expected /\ files = Tree(j.expected)  BY <1>8, <1>9
  <2>2. record' = Recorded(j.expected, j.next)  BY <1>9
  <2>. HIDE DEF j
  <2>. QED  BY <1>0, <1>3, <1>5, <2>1, <2>2, RecordMade
<1>10. CASE /\ Admitted(j) /\ Works /\ record' = Recorded(j.expected, j.next)
            /\ Set(t, "ask", new) /\ filesLock' = <<t, "ask">> /\ UNCHANGED gitLock
  <2>0. /\ record' = Recorded(j.expected, j.next) /\ spent' = spent /\ Set(t, "ask", new)
        /\ filesLock' = <<t, "ask">> /\ gitLock' = gitLock
        /\ branch = j.expected /\ files = Tree(j.expected)
    BY <1>8, <1>10 DEF Works
  <2>1. RepoI'  BY <1>9, <1>10
  <2>2. Changed(j) \in SUBSET Paths  BY DEF Changed
  <2>3. /\ new \in JobType /\ new.pc = "apply" /\ new.todo = Changed(j)
        /\ new.expected = j.expected /\ new.next = j.next
        /\ new.kind = j.kind /\ new.applied = j.applied
    <3>. HIDE DEF Changed
    <3>. QED  BY <1>4, <2>2 DEF JobType, JobPcs
  <2>. HIDE DEF new
  <2>4. job'[t]["ask"] = new /\ Replaced(t, "ask")
    BY <1>0, <1>1, <2>0, <2>3, SetReplaces
  <2>5. spent' \in SpentType  BY <1>0, <2>0 DEF HandleTypes
  <2>6. HandleTypes' /\ SavesKept  BY <1>0, <1>1, <1>2, <2>0, <2>4, <2>5, HandlesKept
  <2>7. job'[t]["ask"].pc \in Publishing  BY <2>3, <2>4 DEF Publishing
  <2>8. LocksI'
    BY <1>0, <1>2, <1>6, <2>0, <2>4, <2>6, <2>7, FilesLockTaken
  <2>9. CaptureI(job[t]["ask"])'  BY <2>3, <2>4 DEF CaptureI
  <2>10. PublishI(job[t]["ask"])'
    <3>1. Changed(job[t]["ask"])' = Changed(j)
      BY <1>3, <2>3, <2>4 DEF Changed, Tree
    <3>2. ApplyI(job[t]["ask"])'
      <4>1. \A p \in Paths : /\ p \in Changed(j) => files[p] = Tree(j.expected)[p]
                             /\ p \notin Changed(j) => files[p] = Tree(j.next)[p]
        BY <2>0 DEF Changed
      <4>. HIDE DEF j
      <4>. QED  BY <1>3, <2>0, <2>3, <2>4, <3>1, <4>1 DEF ApplyI, Tree
    <3>3. (record = Recorded(job[t]["ask"].expected, job[t]["ask"].next))'
      BY <2>0, <2>3, <2>4 DEF Recorded
    <3>. QED  BY <2>3, <2>4, <3>2, <3>3 DEF PublishI
  <2>11. JobsI'
    <3>1. DOMAIN commits \subseteq DOMAIN commits'  BY <1>3
    <3>. QED  BY <1>0, <1>1, <1>4, <2>4, <2>9, <2>10, <3>1, JobsAlone
  <2>12. QuietI'
    <3>1. gitLock' = <<t, "ask">> /\ job'[t]["ask"].kind # "recover"
      BY <1>4, <1>5, <2>0, <2>3, <2>4
    <3>. QED  BY <1>2, <2>0, <2>4, <2>7, <2>8, <3>1, PublishesQuietly
  <2>. QED  BY <2>1, <2>6, <2>8, <2>11, <2>12 DEF IInv
<1>11. CASE /\ Admitted(j) /\ FailsNow
            /\ record' \in {Recorded(j.expected, j.next), Unadmitted, NoRecord}
            /\ Set(t, "ask", NoJob) /\ Released /\ UNCHANGED filesLock
  <2>0. /\ Set(t, "ask", NoJob) /\ gitLock' = Nobody /\ filesLock' = filesLock /\ FailsNow
        /\ branch = j.expected /\ files = Tree(j.expected)
    BY <1>8, <1>11 DEF Released
  <2>1. RepoI'
    <3>1. CASE record' = Recorded(j.expected, j.next)  BY <1>9, <1>11, <3>1
    <3>2. CASE record' \in {NoRecord, Unadmitted}
      <4>1. \A p \in Paths : files[p] = Tree(branch)[p] \/ Mine(p)  BY <2>0
      <4>. QED  BY <1>0, <1>3, <3>2, <4>1, RecordForgotten
    <3>. QED  BY <1>11, <3>1, <3>2
  <2>2. Replaced(t, "ask") /\ job'[t]["ask"].pc = "idle"
    BY <1>0, <1>1, <2>0, NoJobSet
  <2>3. spent' \in SpentType /\ QuietI'  BY <1>0, <2>0, FaultQuiet
  <2>4. /\ filesLock' = IF job[t]["ask"].pc \in Publishing THEN Nobody ELSE filesLock
        /\ job'[t]["ask"].pc \in {"idle", "settling"} /\ DOMAIN commits \subseteq DOMAIN commits'
    BY <1>3, <1>6, <2>0, <2>2
  <2>. QED  BY <1>1, <1>2, <1>6, <2>0, <2>1, <2>2, <2>3, <2>4, FreedStep
<1>12. \/ /\ Works /\ Set(t, "ask", NoJob) /\ Released /\ UNCHANGED <<record, filesLock>>
       \/ /\ Admitted(j) /\ Works /\ record' = Recorded(j.expected, j.next)
          /\ Set(t, "ask", new) /\ filesLock' = <<t, "ask">> /\ UNCHANGED gitLock
       \/ /\ Admitted(j) /\ FailsNow
          /\ record' \in {Recorded(j.expected, j.next), Unadmitted, NoRecord}
          /\ Set(t, "ask", NoJob) /\ Released /\ UNCHANGED filesLock
  BY DEF Admit
<1>. QED  BY <1>7, <1>10, <1>11, <1>12

(* What holds while a publication writes files or is about to move the     *)
(* branch.                                                                 *)
LEMMA PublishingFacts ==
  ASSUME IInv, NEW t \in Tabs, job[t]["ask"].pc \in Publishing
  PROVE  /\ gitLock = <<t, "ask">> /\ filesLock = <<t, "ask">> /\ job[t]["ask"] \in JobType
         /\ record = Recorded(job[t]["ask"].expected, job[t]["ask"].next)
         /\ record.state = "recorded" /\ record.expected = job[t]["ask"].expected
         /\ record.next = job[t]["ask"].next
         /\ job[t]["ask"].expected \in DOMAIN commits /\ job[t]["ask"].next \in DOMAIN commits
         /\ job[t]["ask"].expected \in Past(job[t]["ask"].next)
         /\ job[t]["ask"].pc \in Locked
         /\ job[t]["ask"].pc \in {"apply", "branch"} => ApplyI(job[t]["ask"])
<1>0. RepoI /\ HandleTypes /\ LocksI /\ JobsI /\ "ask" \in Jobs  BY DEF IInv, Jobs
<1>1. job[t]["ask"].pc \in Locked  BY DEF Locked, Publishing
<1>2. gitLock = <<t, "ask">> /\ filesLock = <<t, "ask">> /\ job[t]["ask"] \in JobType
  BY <1>0, <1>1, JobTyped DEF LocksI
<1>3. PublishI(job[t]["ask"])  BY <1>0 DEF JobsI
<1>4. /\ record = Recorded(job[t]["ask"].expected, job[t]["ask"].next)
      /\ job[t]["ask"].pc \in {"apply", "branch"} => ApplyI(job[t]["ask"])
  BY <1>3 DEF PublishI
<1>5. /\ record.state = "recorded" /\ record.expected = job[t]["ask"].expected
      /\ record.next = job[t]["ask"].next
  BY <1>4 DEF Recorded
<1>6. /\ record.expected \in DOMAIN commits /\ record.next \in DOMAIN commits
      /\ record.expected \in Past(record.next)
  BY <1>0, <1>5 DEF RepoI, RecordI
<1>. QED  BY <1>1, <1>2, <1>4, <1>5, <1>6

(* A step of the publication replaced a file that history holds.           *)
LEMMA FileApplied ==
  ASSUME IInv, NEW t \in Tabs, job[t]["ask"].pc = "apply", NEW p \in job[t]["ask"].todo,
         NEW c \in {Tree(job[t]["ask"].next)[p], Empty}, files' = Put(p, c),
         UNCHANGED <<index, branch, tracking, remote, record, commits, mine, written>>
  PROVE  RepoI'
<1>. DEFINE j == job[t]["ask"]
<1>0. RepoI  BY DEF IInv
<1>1. j.pc \in Publishing  BY DEF Publishing
<1>2. /\ record.state = "recorded" /\ record.expected = j.expected /\ record.next = j.next
      /\ j.expected \in DOMAIN commits /\ j.next \in DOMAIN commits /\ ApplyI(j)
  BY <1>1, PublishingFacts
<1>3. /\ branch = j.expected /\ j.todo \subseteq Changed(j)
      /\ files[p] = Tree(j.expected)[p]
  BY <1>2 DEF ApplyI, Changed
<1>4. p \in Paths /\ Tree(j.expected)[p] # Tree(j.next)[p]  BY <1>3 DEF Changed
<1>5. /\ files \in Trees /\ Tree(j.next) \in Trees /\ commits \in Seq(CommitType)
  <2>1. commits[j.next] \in CommitType  BY <1>0, <1>2 DEF RepoI, RepoTypes
  <2>. QED  BY <1>0, <2>1 DEF RepoI, RepoTypes, CommitType, Tree
<1>6. c \in Contents
  <2>1. Tree(j.next)[p] \in Contents  BY <1>4, <1>5 DEF Trees
  <2>. QED  BY <2>1, ContentsFacts
<1>7. files' \in Trees /\ files'[p] = c /\ \A q \in Paths : q # p => files'[q] = files[q]
  BY <1>4, <1>5, <1>6 DEF Put, Trees
<1>8. RepoTypes'  BY <1>0, <1>7 DEF RepoI, RepoTypes
<1>9. CommitsI'  BY <1>0 DEF RepoI, CommitsI, Past
<1>10. RecordI'  BY <1>0 DEF RepoI, RecordI, Past
<1>11. CheckpointsAreMine'  BY <1>0 DEF RepoI, CheckpointsAreMine, Tree
<1>12. branch # record.next  BY <1>2, <1>3, <1>4
<1>13. FilesI'
  <2>1. ASSUME NEW q \in Paths
        PROVE  \/ files'[q] = Tree(record.expected)[q] \/ files'[q] = Tree(record.next)[q]
               \/ Mine(q)'
               \/ files'[q] = Empty /\ Tree(record.expected)[q] # Tree(record.next)[q]
    <3>1. CASE q = p  BY <1>2, <1>4, <1>7, <3>1
    <3>2. CASE q # p
      <4>1. \/ files[q] = Tree(record.expected)[q] \/ files[q] = Tree(record.next)[q]
            \/ Mine(q)
            \/ files[q] = Empty /\ Tree(record.expected)[q] # Tree(record.next)[q]
        BY <1>0, <1>2 DEF RepoI, FilesI
      <4>2. Mine(q)' <=> Mine(q)  BY <1>7, <3>2 DEF Mine
      <4>. QED  BY <1>7, <3>2, <4>1, <4>2
    <3>. QED  BY <3>1, <3>2
  <2>2. /\ record'.state = "recorded" /\ branch' # record'.next
        /\ \A q \in Paths : /\ Tree(record.expected)'[q] = Tree(record.expected)[q]
                            /\ Tree(record.next)'[q] = Tree(record.next)[q]
    BY <1>2, <1>12 DEF Tree
  <2>. QED  BY <2>1, <2>2 DEF FilesI
<1>14. NoSaveLost'
  <2>1. ASSUME NEW q \in Paths, files'[q] # mine[q]
        PROVE  \E d \in Past(branch) : Tree(d)[q] = mine[q]
    <3>1. CASE files[q] # mine[q]  BY <1>0, <3>1 DEF RepoI, NoSaveLost
    <3>2. CASE files[q] = mine[q]
      <4>1. q = p  BY <1>7, <2>1, <3>2
      <4>2. branch \in Past(branch)  BY <1>0, <1>2, <1>3 DEF RepoI, CommitsI
      <4>3. Tree(branch)[q] = mine[q]  BY <1>3, <3>2, <4>1
      <4>. QED  BY <4>2, <4>3
    <3>. QED  BY <3>1, <3>2
  <2>. QED  BY <2>1 DEF NoSaveLost, Past, Tree
<1>. QED  BY <1>8, <1>9, <1>10, <1>11, <1>13, <1>14 DEF RepoI

LEMMA ApplyStepStep ==
  ASSUME IInv, NEW t \in Tabs, NEW p \in Paths, ApplyStep(t, p)
  PROVE  IInv'
<1>. DEFINE j == job[t]["ask"]
            new == [j EXCEPT !.todo = j.todo \ {p}, !.applied = TRUE]
<1>0. RepoI /\ HandleTypes /\ LocksI /\ JobsI  BY DEF IInv
<1>1. "ask" \in Jobs  BY DEF Jobs
<1>2. /\ j.pc = "apply" /\ p \in j.todo /\ files' = Put(p, Tree(j.next)[p]) /\ spent' = spent
      /\ UNCHANGED <<repository, locks, users>> /\ tab' = tab
  BY DEF ApplyStep, NextSteps, Works
<1>3. Set(t, "ask", new)  BY DEF ApplyStep
<1>4. UNCHANGED <<index, branch, tracking, remote, record, commits, mine, written>>
  BY <1>2 DEF repository, users
<1>5. j.pc \in Publishing  BY <1>2 DEF Publishing
<1>6. /\ gitLock = <<t, "ask">> /\ j \in JobType /\ record = Recorded(j.expected, j.next)
      /\ ApplyI(j)
  BY <1>2, <1>5, PublishingFacts
<1>7. RepoI'
  <2>1. Tree(job[t]["ask"].next)[p] \in {Tree(job[t]["ask"].next)[p], Empty}  OBVIOUS
  <2>. QED  BY <1>2, <1>4, <2>1, FileApplied
<1>8. /\ new \in JobType /\ new.pc = "apply" /\ new.todo = j.todo \ {p} /\ new.applied = TRUE
      /\ new.expected = j.expected /\ new.next = j.next /\ new.kind = j.kind
  BY <1>2, <1>6 DEF JobType
<1>. HIDE DEF new
<1>9. job'[t]["ask"] = new /\ Replaced(t, "ask")  BY <1>0, <1>1, <1>3, <1>8, SetReplaces
<1>10. spent' \in SpentType  BY <1>0, <1>2 DEF HandleTypes
<1>11. gitLock' = gitLock /\ filesLock' = filesLock  BY <1>2 DEF locks
<1>12. HandleTypes' /\ SavesKept  BY <1>0, <1>1, <1>2, <1>9, <1>10, <1>11, HandlesKept
<1>13. job'[t]["ask"].pc \in Publishing  BY <1>8, <1>9 DEF Publishing
<1>14. LocksI'
  <2>1. /\ job'[t]["ask"].pc \in Locked <=> job[t]["ask"].pc \in Locked
        /\ job'[t]["ask"].pc \in Publishing <=> job[t]["ask"].pc \in Publishing
    BY <1>2, <1>8, <1>9
  <2>2. UNCHANGED locks  BY <1>2
  <2>. QED  BY <1>0, <1>1, <1>9, <1>12, <2>1, <2>2, LocksKept
<1>15. CaptureI(job[t]["ask"])'  BY <1>8, <1>9 DEF CaptureI
<1>16. PublishI(job[t]["ask"])'
  <2>1. Changed(job[t]["ask"])' = Changed(j)
    BY <1>4, <1>8, <1>9 DEF Changed, Tree
  <2>2. files'[p] = Tree(j.next)[p] /\ \A q \in Paths : q # p => files'[q] = files[q]
    BY <1>0, <1>2 DEF Put, RepoI, RepoTypes, Trees
  <2>3. /\ branch = j.expected /\ j.todo \subseteq Changed(j)
        /\ \A q \in Paths :
            /\ q \in j.todo => files[q] = Tree(j.expected)[q]
            /\ q \in Changed(j) \ j.todo => files[q] = Tree(j.next)[q]
            /\ q \notin Changed(j) /\ j.kind # "recover" => files[q] = Tree(j.next)[q]
    BY <1>6 DEF ApplyI
  <2>4. ApplyI(job[t]["ask"])'
    <3>1. \A q \in Paths :
            /\ q \in j.todo \ {p} => files'[q] = Tree(j.expected)[q]
            /\ q \in Changed(j) \ (j.todo \ {p}) => files'[q] = Tree(j.next)[q]
            /\ q \notin Changed(j) /\ j.kind # "recover" => files'[q] = Tree(j.next)[q]
      BY <1>2, <2>2, <2>3
    <3>2. j.todo \ {p} \subseteq Changed(j)  BY <2>3
    <3>. HIDE DEF j
    <3>. QED  BY <1>4, <1>8, <1>9, <2>1, <2>3, <3>1, <3>2 DEF ApplyI, Tree
  <2>5. (record = Recorded(job[t]["ask"].expected, job[t]["ask"].next))'
    BY <1>4, <1>6, <1>8, <1>9 DEF Recorded
  <2>. QED  BY <1>8, <1>9, <2>4, <2>5 DEF PublishI
<1>17. JobsI'
  <2>1. DOMAIN commits \subseteq DOMAIN commits'  BY <1>4
  <2>. QED  BY <1>0, <1>1, <1>6, <1>9, <1>15, <1>16, <2>1, JobsAlone
<1>18. QuietI'
  <2>1. gitLock' = <<t, "ask">>  BY <1>6, <1>11
  <2>2. spent.faults = 0 => job'[t]["ask"].kind # "recover"
    BY <1>5, <1>8, <1>9 DEF IInv, QuietI, QuietTabs
  <2>. QED  BY <1>2, <1>9, <1>13, <1>14, <2>1, <2>2, PublishesQuietly
<1>. QED  BY <1>7, <1>12, <1>14, <1>17, <1>18 DEF IInv

LEMMA ApplyUnconfirmedStep ==
  ASSUME IInv, NEW t \in Tabs, NEW p \in Paths, ApplyUnconfirmed(t, p)
  PROVE  IInv'
<1>0. RepoI /\ HandleTypes  BY DEF IInv
<1>1. /\ job[t]["ask"].pc = "apply" /\ p \in job[t]["ask"].todo /\ FailsNow /\ Ends(t)
      /\ UNCHANGED <<repository, users>> /\ tab' = tab
      /\ files' \in {Put(p, Tree(job[t]["ask"].next)[p]), files, Put(p, Empty)}
  BY DEF ApplyUnconfirmed, NextSteps
<1>2. UNCHANGED <<index, branch, tracking, remote, record, commits, mine, written>>
  BY <1>1 DEF repository, users
<1>3. job[t]["ask"].pc \in Publishing  BY <1>1 DEF Publishing
<1>4. RepoI'
  <2>1. CASE files' = files  BY <1>0, <1>1, <2>1, RepositoryKept
  <2>2. CASE files' \in {Put(p, Tree(job[t]["ask"].next)[p]), Put(p, Empty)}
    <3>1. PICK c \in {Tree(job[t]["ask"].next)[p], Empty} : files' = Put(p, c)  BY <2>2
    <3>. QED  BY <1>1, <1>2, <3>1, FileApplied
  <2>. QED  BY <1>1, <2>1, <2>2
<1>5. spent' \in SpentType /\ QuietI'  BY <1>0, <1>1, FaultQuiet
<1>6. DOMAIN commits \subseteq DOMAIN commits'  BY <1>2
<1>. QED  BY <1>1, <1>3, <1>4, <1>5, <1>6, EndsStep

LEMMA ApplyFailsStep ==
  ASSUME IInv, NEW t \in Tabs, ApplyFails(t)
  PROVE  IInv'
<1>. DEFINE j == job[t]["ask"]
<1>0. RepoI /\ HandleTypes  BY DEF IInv
<1>1. /\ j.pc = "apply" /\ FailsNow /\ Ends(t) /\ tab' = tab
      /\ UNCHANGED <<files, index, branch, refs, commits, users>>
      /\ record' = record \/ (MayForget(j) /\ record' = NoRecord)
  BY DEF ApplyFails
<1>2. UNCHANGED <<files, index, branch, tracking, remote, commits, mine, written>>
  BY <1>1 DEF refs, users
<1>3. job[t]["ask"].pc \in Publishing  BY <1>1 DEF Publishing
<1>4. RepoI'
  <2>1. CASE record' = record
    <3>1. UNCHANGED <<files, repository, users>>  BY <1>1, <1>2, <2>1 DEF repository, users
    <3>. QED  BY <1>0, <3>1, RepositoryKept
  <2>2. CASE MayForget(j) /\ record' = NoRecord
    <3>1. ApplyI(j)  BY <1>1, <1>3, PublishingFacts
    <3>2. branch = j.expected /\ j.todo = Changed(j) /\ j.kind # "recover"
      BY <2>2, <3>1 DEF ApplyI, MayForget
    <3>3. ASSUME NEW p \in Paths PROVE files[p] = Tree(branch)[p]
      <4>1. CASE p \in Changed(j)  BY <3>1, <3>2, <4>1 DEF ApplyI
      <4>2. CASE p \notin Changed(j)
        <5>1. files[p] = Tree(j.next)[p]  BY <3>1, <3>2, <4>2 DEF ApplyI
        <5>2. Tree(j.expected)[p] = Tree(j.next)[p]  BY <4>2 DEF Changed
        <5>. QED  BY <3>2, <5>1, <5>2
      <4>. QED  BY <4>1, <4>2
    <3>. QED  BY <1>0, <1>2, <2>2, <3>3, RecordForgotten
  <2>. QED  BY <1>1, <2>1, <2>2
<1>5. spent' \in SpentType /\ QuietI'  BY <1>0, <1>1, FaultQuiet
<1>6. DOMAIN commits \subseteq DOMAIN commits'  BY <1>2
<1>. QED  BY <1>1, <1>3, <1>4, <1>5, <1>6, EndsStep

LEMMA WriteIndexStep ==
  ASSUME IInv, NEW t \in Tabs, WriteIndex(t)
  PROVE  IInv'
<1>. DEFINE j == job[t]["ask"]
            new == [j EXCEPT !.pc = "branch"]
<1>0. RepoI /\ HandleTypes /\ LocksI /\ JobsI  BY DEF IInv
<1>1. "ask" \in Jobs  BY DEF Jobs
<1>2. /\ j.pc = "apply" /\ j.todo = {} /\ tab' = tab /\ index' \in {index, j.next}
      /\ UNCHANGED <<files, branch, refs, record, commits, users>>
  BY DEF WriteIndex
<1>3. UNCHANGED <<files, branch, record, commits, mine, written>>
  BY <1>2 DEF users
<1>4. j.pc \in Publishing  BY <1>2 DEF Publishing
<1>5. /\ gitLock = <<t, "ask">> /\ j \in JobType /\ record = Recorded(j.expected, j.next)
      /\ ApplyI(j) /\ j.next \in DOMAIN commits
  BY <1>2, <1>4, PublishingFacts
<1>6. /\ index' \in DOMAIN commits /\ tracking' \in DOMAIN commits
      /\ remote' \in DOMAIN commits
  BY <1>0, <1>2, <1>5 DEF refs, RepoI, RepoTypes
<1>7. RepoI'  BY <1>0, <1>3, <1>6, RepoKept
<1>8. CASE Works /\ Set(t, "ask", new) /\ UNCHANGED locks
  <2>0. spent' = spent /\ Set(t, "ask", new) /\ UNCHANGED locks  BY <1>8 DEF Works
  <2>1. /\ new \in JobType /\ new.pc = "branch" /\ new.todo = {} /\ new.applied = j.applied
        /\ new.expected = j.expected /\ new.next = j.next /\ new.kind = j.kind
    BY <1>2, <1>5 DEF JobType, JobPcs
  <2>. HIDE DEF new
  <2>2. job'[t]["ask"] = new /\ Replaced(t, "ask")  BY <1>0, <1>1, <2>0, <2>1, SetReplaces
  <2>3. spent' \in SpentType  BY <1>0, <2>0 DEF HandleTypes
  <2>4. gitLock' = gitLock /\ filesLock' = filesLock  BY <2>0 DEF locks
  <2>5. HandleTypes' /\ SavesKept  BY <1>0, <1>1, <1>2, <2>2, <2>3, <2>4, HandlesKept
  <2>6. job'[t]["ask"].pc \in Publishing  BY <2>1, <2>2 DEF Publishing
  <2>7. LocksI'
    <3>1. /\ job'[t]["ask"].pc \in Locked <=> job[t]["ask"].pc \in Locked
          /\ job'[t]["ask"].pc \in Publishing <=> job[t]["ask"].pc \in Publishing
      BY <1>2, <2>1, <2>2 DEF Locked, Publishing
    <3>. QED  BY <1>0, <1>1, <2>0, <2>2, <2>5, <3>1, LocksKept
  <2>8. CaptureI(job[t]["ask"])'  BY <2>1, <2>2 DEF CaptureI
  <2>9. PublishI(job[t]["ask"])'
    <3>1. Changed(job[t]["ask"])' = Changed(j)
      BY <1>3, <2>1, <2>2 DEF Changed, Tree
    <3>2. ApplyI(job[t]["ask"])'
      <4>1. /\ branch = j.expected /\ {} \subseteq Changed(j)
            /\ \A q \in Paths :
                /\ q \in Changed(j) => files[q] = Tree(j.next)[q]
                /\ q \notin Changed(j) /\ j.kind # "recover" => files[q] = Tree(j.next)[q]
            /\ j.kind # "recover" /\ ~j.applied => Changed(j) = {}
        BY <1>2, <1>5 DEF ApplyI
      <4>. HIDE DEF j
      <4>. QED  BY <1>3, <2>1, <2>2, <3>1, <4>1 DEF ApplyI, Tree
    <3>3. (record = Recorded(job[t]["ask"].expected, job[t]["ask"].next))'
      BY <1>3, <1>5, <2>1, <2>2 DEF Recorded
    <3>. QED  BY <2>1, <2>2, <3>2, <3>3 DEF PublishI
  <2>10. JobsI'  BY <1>0, <1>1, <1>3, <2>2, <2>8, <2>9, JobsKept
  <2>11. QuietI'
    <3>1. gitLock' = <<t, "ask">>  BY <1>5, <2>4
    <3>2. spent.faults = 0 => job'[t]["ask"].kind # "recover"
      BY <1>4, <2>1, <2>2 DEF IInv, QuietI, QuietTabs
    <3>. QED  BY <1>2, <2>0, <2>2, <2>6, <2>7, <3>1, <3>2, PublishesQuietly
  <2>. QED  BY <1>7, <2>5, <2>7, <2>10, <2>11 DEF IInv
<1>9. CASE FailsNow /\ Ends(t)
  <2>1. spent' \in SpentType /\ QuietI'  BY <1>0, <1>9, FaultQuiet
  <2>2. DOMAIN commits \subseteq DOMAIN commits'  BY <1>3
  <2>. QED  BY <1>2, <1>4, <1>7, <1>9, <2>1, <2>2, EndsStep
<1>. QED  BY <1>8, <1>9 DEF WriteIndex

(* The branch moves to a descendant once every file is the update's or a   *)
(* user's.                                                                 *)
LEMMA BranchMoved ==
  ASSUME IInv, NEW t \in Tabs, job[t]["ask"].pc = "branch", branch' = job[t]["ask"].next,
         UNCHANGED <<files, index, tracking, remote, record, commits, mine, written>>
  PROVE  /\ RepoI'
         /\ job[t]["ask"].kind # "recover" => files = Tree(job[t]["ask"].next)
<1>. DEFINE j == job[t]["ask"]
<1>0. RepoI /\ JobsI /\ "ask" \in Jobs  BY DEF IInv, Jobs
<1>1. j.pc \in Publishing  BY DEF Publishing
<1>2. /\ record.state = "recorded" /\ record.expected = j.expected /\ record.next = j.next
      /\ j.expected \in DOMAIN commits /\ j.next \in DOMAIN commits
      /\ j.expected \in Past(j.next) /\ ApplyI(j)
  BY <1>1, PublishingFacts
<1>3. j.todo = {}
  <2>1. PublishI(j)  BY <1>0 DEF JobsI
  <2>. QED  BY <2>1 DEF PublishI
<1>4. /\ branch = j.expected
      /\ \A p \in Paths : /\ p \in Changed(j) => files[p] = Tree(j.next)[p]
                          /\ p \notin Changed(j) /\ j.kind # "recover" => files[p] = Tree(j.next)[p]
  BY <1>2, <1>3 DEF ApplyI
<1>5. ASSUME NEW p \in Paths PROVE files[p] = Tree(j.next)[p] \/ Mine(p)
  <2>1. CASE p \in Changed(j)  BY <1>4, <2>1
  <2>2. CASE p \notin Changed(j)
    <3>1. Tree(j.expected)[p] = Tree(j.next)[p]  BY <2>2 DEF Changed
    <3>. QED  BY <1>0, <1>2, <3>1 DEF RepoI, FilesI
  <2>. QED  BY <2>1, <2>2
<1>6. ASSUME j.kind # "recover" PROVE files = Tree(j.next)
  <2>1. \A p \in Paths : files[p] = Tree(j.next)[p]  BY <1>4, <1>6
  <2>2. commits[j.next] \in CommitType /\ files \in Trees  BY <1>0, <1>2 DEF RepoI, RepoTypes
  <2>3. Tree(j.next) \in Trees  BY <2>2 DEF CommitType, Tree
  <2>. QED  BY <2>1, <2>2, <2>3 DEF Trees
<1>7. RepoTypes'  BY <1>0, <1>2 DEF RepoI, RepoTypes
<1>8. CommitsI'  BY <1>0 DEF RepoI, CommitsI, Past
<1>9. RecordI'  BY <1>0, <1>2 DEF RepoI, RecordI, Past
<1>10. CheckpointsAreMine'  BY <1>0 DEF RepoI, CheckpointsAreMine, Tree
<1>11. FilesI'
  <2>1. \A p \in Paths : Mine(p)' <=> Mine(p)  BY DEF Mine
  <2>2. \A p \in Paths : files'[p] = Tree(record.next)'[p] \/ Mine(p)'
    BY <1>2, <1>5, <2>1 DEF Tree
  <2>. QED  BY <1>2, <2>2 DEF FilesI
<1>12. NoSaveLost'
  <2>1. Past(branch) \subseteq Past(j.next)  BY <1>0, <1>2, <1>4 DEF RepoI, CommitsI
  <2>2. \A p \in Paths : files[p] = mine[p] \/ \E c \in Past(j.next) : Tree(c)[p] = mine[p]
    BY <1>0, <2>1 DEF RepoI, NoSaveLost
  <2>. QED  BY <2>2 DEF NoSaveLost, Past, Tree
<1>. QED  BY <1>6, <1>7, <1>8, <1>9, <1>10, <1>11, <1>12 DEF RepoI

LEMMA MoveBranchStep ==
  ASSUME IInv, NEW t \in Tabs, MoveBranch(t)
  PROVE  IInv'
<1>. DEFINE j == job[t]["ask"]
            new == [j EXCEPT !.pc = "readback"]
<1>0. RepoI /\ HandleTypes /\ LocksI /\ JobsI  BY DEF IInv
<1>1. "ask" \in Jobs  BY DEF Jobs
<1>2. /\ j.pc = "branch" /\ tab' = tab /\ branch' \in {branch, j.next}
      /\ UNCHANGED <<files, index, refs, record, commits, users>>
  BY DEF MoveBranch
<1>3. UNCHANGED <<files, index, tracking, remote, record, commits, mine, written>>
  BY <1>2 DEF users, refs
<1>4. j.pc \in Publishing  BY <1>2 DEF Publishing
<1>5. gitLock = <<t, "ask">> /\ j \in JobType /\ record = Recorded(j.expected, j.next)
  BY <1>2, <1>4, PublishingFacts
<1>6. ASSUME branch' = j.next
      PROVE  RepoI' /\ (j.kind # "recover" => files = Tree(j.next))
  BY <1>2, <1>3, <1>6, BranchMoved
<1>7. CASE branch' = j.next /\ Works /\ Set(t, "ask", new) /\ UNCHANGED locks
  <2>0. spent' = spent /\ Set(t, "ask", new) /\ UNCHANGED locks /\ branch' = j.next
    BY <1>7 DEF Works
  <2>1. /\ new \in JobType /\ new.pc = "readback"
        /\ new.expected = j.expected /\ new.next = j.next /\ new.kind = j.kind
    BY <1>5 DEF JobType, JobPcs
  <2>. HIDE DEF new
  <2>2. job'[t]["ask"] = new /\ Replaced(t, "ask")  BY <1>0, <1>1, <2>0, <2>1, SetReplaces
  <2>3. spent' \in SpentType  BY <1>0, <2>0 DEF HandleTypes
  <2>4. gitLock' = gitLock /\ filesLock' = filesLock  BY <2>0 DEF locks
  <2>5. HandleTypes' /\ SavesKept  BY <1>0, <1>1, <1>2, <2>2, <2>3, <2>4, HandlesKept
  <2>6. job'[t]["ask"].pc \in Publishing  BY <2>1, <2>2 DEF Publishing
  <2>7. LocksI'
    <3>1. /\ job'[t]["ask"].pc \in Locked <=> job[t]["ask"].pc \in Locked
          /\ job'[t]["ask"].pc \in Publishing <=> job[t]["ask"].pc \in Publishing
      BY <1>2, <2>1, <2>2 DEF Locked, Publishing
    <3>. QED  BY <1>0, <1>1, <2>0, <2>2, <2>5, <3>1, LocksKept
  <2>8. CaptureI(job[t]["ask"])'  BY <2>1, <2>2 DEF CaptureI
  <2>9. PublishI(job[t]["ask"])'
    <3>1. (record = Recorded(job[t]["ask"].expected, job[t]["ask"].next))'
      BY <1>3, <1>5, <2>1, <2>2 DEF Recorded
    <3>2. j.kind # "recover" => files = Tree(j.next)  BY <1>6, <2>0
    <3>. HIDE DEF j
    <3>. QED  BY <1>3, <2>0, <2>1, <2>2, <3>1, <3>2 DEF PublishI, Tree
  <2>10. JobsI'
    <3>1. DOMAIN commits \subseteq DOMAIN commits'  BY <1>3
    <3>. QED  BY <1>0, <1>1, <1>5, <2>2, <2>8, <2>9, <3>1, JobsAlone
  <2>11. QuietI'
    <3>1. gitLock' = <<t, "ask">>  BY <1>5, <2>4
    <3>2. spent.faults = 0 => job'[t]["ask"].kind # "recover"
      BY <1>4, <2>1, <2>2 DEF IInv, QuietI, QuietTabs
    <3>. QED  BY <1>2, <2>0, <2>2, <2>6, <2>7, <3>1, <3>2, PublishesQuietly
  <2>12. RepoI'  BY <1>6, <2>0
  <2>. QED  BY <2>5, <2>7, <2>10, <2>11, <2>12 DEF IInv
<1>8. CASE FailsNow /\ Ends(t)
  <2>1. RepoI'
    <3>1. CASE branch' = branch
      <4>1. UNCHANGED <<files, repository, users>>  BY <1>2, <1>3, <3>1 DEF repository, users
      <4>. QED  BY <1>0, <4>1, RepositoryKept
    <3>. QED  BY <1>2, <1>6, <3>1
  <2>2. spent' \in SpentType /\ QuietI'  BY <1>0, <1>8, FaultQuiet
  <2>3. DOMAIN commits \subseteq DOMAIN commits'  BY <1>3
  <2>. QED  BY <1>2, <1>4, <1>8, <2>1, <2>2, <2>3, EndsStep
<1>. QED  BY <1>7, <1>8 DEF MoveBranch

LEMMA ClearRecordStep ==
  ASSUME IInv, NEW t \in Tabs, ClearRecord(t)
  PROVE  IInv'
<1>. DEFINE j == job[t]["ask"]
<1>0. RepoI /\ HandleTypes /\ LocksI /\ JobsI  BY DEF IInv
<1>1. "ask" \in Jobs  BY DEF Jobs
<1>2. /\ j.pc = "readback" /\ tab' = tab /\ Ends(t)
      /\ UNCHANGED <<files, index, branch, refs, commits, users>>
  BY DEF ClearRecord
<1>3. UNCHANGED <<files, index, branch, tracking, remote, commits, mine, written>>
  BY <1>2 DEF users, refs
<1>4. job[t]["ask"].pc \in Publishing  BY <1>2 DEF Publishing
<1>5. record.state = "recorded" /\ record.next = j.next /\ gitLock = <<t, "ask">>
  BY <1>4, PublishingFacts
<1>6. branch = j.next /\ (j.kind # "recover" => files = Tree(j.next))
  <2>1. PublishI(j)  BY <1>0, <1>1 DEF JobsI
  <2>. QED  BY <1>2, <2>1 DEF PublishI
<1>7. DOMAIN commits \subseteq DOMAIN commits'  BY <1>3
<1>8. CASE record' = NoRecord /\ Works
  <2>1. \A p \in Paths : files[p] = Tree(branch)[p] \/ Mine(p)
    BY <1>0, <1>5, <1>6 DEF RepoI, FilesI
  <2>2. RepoI'  BY <1>0, <1>3, <1>8, <2>1, RecordForgotten
  <2>3. spent' = spent /\ spent' \in SpentType  BY <1>0, <1>8 DEF HandleTypes, Works
  <2>4. QuietI'
    <3>. SUFFICES ASSUME spent.faults = 0 PROVE QuietTabs' /\ QuietRecord' /\ QuietFiles'
      BY <2>3 DEF QuietI
    <3>0. Set(t, "ask", NoJob) /\ gitLock' = Nobody /\ filesLock' = Nobody
      BY <1>2 DEF Ends, Released
    <3>1. Replaced(t, "ask") /\ job'[t]["ask"].pc = "idle"
      BY <1>0, <1>1, <3>0, NoJobSet
    <3>2. QuietTabs  BY DEF IInv, QuietI
    <3>3. QuietTabs'
      <4>1. job'[t]["ask"].pc \notin Publishing  BY <3>1 DEF Publishing
      <4>. QED  BY <1>1, <1>2, <3>1, <3>2, <4>1, QuietTabsKept
    <3>4. QuietRecord'  BY <1>8 DEF QuietRecord, NoRecord
    <3>5. QuietFiles'
      <4>1. files = Tree(branch)
        <5>1. j.kind # "recover"  BY <1>4, <3>2 DEF QuietTabs
        <5>. QED  BY <1>6, <5>1
      <4>2. \A p \in Paths : files'[p] = Tree(branch)'[p]  BY <1>3, <4>1 DEF Tree
      <4>3. \A u \in Tabs, l \in Jobs : job'[u][l].pc # "capture"
        <5>1. ASSUME NEW u \in Tabs, NEW l \in Jobs, job'[u][l].pc = "capture" PROVE FALSE
          <6>1. u # t \/ l # "ask"  BY <3>1, <5>1
          <6>2. job[u][l].pc = "capture"  BY <3>1, <5>1, <6>1 DEF Replaced
          <6>3. gitLock = <<u, l>>  BY <1>0, <6>2 DEF LocksI, Locked
          <6>. QED  BY <1>5, <6>1, <6>3
        <5>. QED  BY <5>1
      <4>4. \A p \in Paths : SeenNow(p)'  BY <4>3 DEF SeenNow, Capturing
      <4>. QED  BY <4>2, <4>4 DEF QuietFiles
    <3>. QED  BY <3>3, <3>4, <3>5
  <2>. QED  BY <1>2, <1>4, <1>7, <2>2, <2>3, <2>4, EndsStep
<1>9. CASE UNCHANGED record /\ FailsNow
  <2>1. UNCHANGED <<files, repository, users>>  BY <1>2, <1>3, <1>9 DEF repository, users
  <2>2. RepoI'  BY <1>0, <2>1, RepositoryKept
  <2>3. spent' \in SpentType /\ QuietI'  BY <1>0, <1>9, FaultQuiet
  <2>. QED  BY <1>2, <1>4, <1>7, <2>2, <2>3, EndsStep
<1>. QED  BY <1>8, <1>9 DEF ClearRecord

(***************************************************************************)
(* Recovery                                                                *)
(***************************************************************************)

LEMMA RecoverStep ==
  ASSUME IInv, NEW t \in Tabs, Recover(t)
  PROVE  IInv'
<1>. DEFINE me == job[t]["ask"]
            j == [me EXCEPT !.expected = record.expected, !.next = record.next]
            left == {p \in Changed(j) : files[p] # Tree(j.next)[p]}
            new == [j EXCEPT !.pc = "apply", !.todo = left]
<1>0. RepoI /\ HandleTypes /\ LocksI /\ JobsI  BY DEF IInv
<1>1. "ask" \in Jobs  BY DEF Jobs
<1>2. me \in JobType /\ record \in RecordType
  BY <1>0, <1>1, JobTyped DEF RepoI, RepoTypes
<1>3. /\ j \in JobType /\ j.pc = me.pc /\ j.kind = me.kind /\ j.applied = me.applied
      /\ j.expected = record.expected /\ j.next = record.next
  BY <1>2 DEF JobType, RecordType
<1>4. /\ me.pc = "recover" /\ filesLock = Nobody /\ tab' = tab /\ spent' = spent
      /\ UNCHANGED <<files, index, branch, refs, commits, users>>
  <2>1. j.pc = "recover" /\ filesLock = Nobody /\ tab' = tab
        /\ UNCHANGED <<files, index, branch, refs, commits, users>>
    BY DEF Recover
  <2>2. Works  BY DEF Recover
  <2>. QED  BY <1>3, <2>1, <2>2 DEF Works
<1>5. UNCHANGED <<files, index, branch, tracking, remote, commits, mine, written>>
  BY <1>4 DEF refs, users
<1>6. gitLock = <<t, "ask">> /\ me.pc \in Locked \ Publishing /\ me.pc # "capture"
  BY <1>0, <1>1, <1>4 DEF LocksI, Locked, Publishing
<1>7. me.kind = "recover" /\ ~me.applied
  <2>1. PublishI(me)  BY <1>0, <1>1 DEF JobsI
  <2>. QED  BY <1>4, <2>1 DEF PublishI
<1>8. record.state # "none" => spent.faults # 0
  <2>. SUFFICES ASSUME record.state # "none", spent.faults = 0 PROVE FALSE
    OBVIOUS
  <2>1. PICK u \in Tabs : job[u]["ask"].pc \in Publishing  BY DEF IInv, QuietI, QuietRecord
  <2>2. gitLock = <<u, "ask">>  BY <1>0, <1>1, <2>1 DEF LocksI, Locked, Publishing
  <2>3. u = t  BY <1>6, <2>2
  <2>. QED  BY <1>6, <2>1, <2>3
<1>9. CASE Set(t, "ask", NoJob) /\ Released /\ UNCHANGED <<record, filesLock>>
  <2>1. /\ Set(t, "ask", NoJob) /\ gitLock' = Nobody /\ filesLock' = filesLock
        /\ UNCHANGED <<files, index, branch, tracking, remote, record, commits, mine, written>>
    BY <1>5, <1>9 DEF Released
  <2>. QED  BY <1>4, <1>6, <2>1, CalmFreed
<1>10. CASE /\ \/ record.state = "empty"
               \/ record.state = "recorded" /\ branch = j.next
            /\ record' = NoRecord
            /\ Set(t, "ask", NoJob) /\ Released /\ UNCHANGED filesLock
  <2>0. /\ Set(t, "ask", NoJob) /\ gitLock' = Nobody /\ filesLock' = filesLock
        /\ record' = NoRecord
    BY <1>10 DEF Released
  <2>1. \A p \in Paths : files[p] = Tree(branch)[p] \/ Mine(p)
    <3>1. CASE record.state = "empty"  BY <1>0, <3>1 DEF RepoI, FilesI
    <3>2. CASE record.state = "recorded" /\ branch = record.next
      BY <1>0, <3>2 DEF RepoI, FilesI
    <3>. QED  BY <1>3, <1>10, <3>1, <3>2
  <2>2. RepoI'  BY <1>0, <1>5, <2>0, <2>1, RecordForgotten
  <2>3. QuietI'  BY <1>4, <1>8, <1>10 DEF QuietI
  <2>4. Replaced(t, "ask") /\ job'[t]["ask"].pc = "idle"  BY <1>0, <1>1, <2>0, NoJobSet
  <2>5. /\ filesLock' = IF job[t]["ask"].pc \in Publishing THEN Nobody ELSE filesLock
        /\ job'[t]["ask"].pc \in {"idle", "settling"} /\ DOMAIN commits \subseteq DOMAIN commits'
        /\ job[t]["ask"].pc \in Locked
    BY <1>5, <1>6, <2>0, <2>4
  <2>6. spent' \in SpentType  BY <1>0, <1>4 DEF HandleTypes
  <2>. QED  BY <1>1, <1>4, <2>0, <2>2, <2>3, <2>4, <2>5, <2>6, FreedStep
<1>11. CASE /\ record.state = "recorded" /\ branch = j.expected /\ Third(j) = {}
            /\ Set(t, "ask", new) /\ filesLock' = <<t, "ask">> /\ UNCHANGED <<record, gitLock>>
  <2>0. /\ record.state = "recorded" /\ branch = j.expected /\ Third(j) = {}
        /\ Set(t, "ask", new) /\ filesLock' = <<t, "ask">> /\ record' = record
        /\ gitLock' = gitLock
    BY <1>11
  <2>1. UNCHANGED <<files, repository, users>>  BY <1>4, <1>5, <2>0 DEF repository, users
  <2>2. RepoI'  BY <1>0, <2>1, RepositoryKept
  <2>3. /\ left \subseteq Changed(j) /\ left \in SUBSET Paths
        /\ \A p \in Changed(j) : p \in left <=> files[p] # Tree(j.next)[p]
    BY DEF Changed
  <2>4. \A p \in left : files[p] = Tree(j.expected)[p]
    <3>1. \A p \in Changed(j) : \/ files[p] \in {Tree(j.expected)[p], Tree(j.next)[p]}
                                \/ Tree(j.next)[p] = Absent /\ files[p] = Absent
      BY <2>0 DEF Third
    <3>. QED  BY <2>3, <3>1
  <2>. HIDE DEF j, left
  <2>5. /\ new \in JobType /\ new.pc = "apply" /\ new.todo = left /\ new.kind = "recover"
        /\ new.expected = record.expected /\ new.next = record.next
    BY <1>3, <1>7, <2>3 DEF JobType, JobPcs
  <2>. HIDE DEF new
  <2>6. job'[t]["ask"] = new /\ Replaced(t, "ask")  BY <1>0, <1>1, <2>0, <2>5, SetReplaces
  <2>7. spent' \in SpentType  BY <1>0, <1>4 DEF HandleTypes
  <2>8. HandleTypes' /\ SavesKept  BY <1>0, <1>1, <1>4, <2>0, <2>6, <2>7, HandlesKept
  <2>9. LocksI'
    <3>1. job'[t]["ask"].pc \in Publishing /\ job[t]["ask"].pc \in Locked
      BY <1>6, <2>5, <2>6 DEF Publishing
    <3>. QED  BY <1>0, <1>4, <2>0, <2>6, <2>8, <3>1, FilesLockTaken
  <2>10. CaptureI(job[t]["ask"])'  BY <2>5, <2>6 DEF CaptureI
  <2>11. PublishI(job[t]["ask"])'
    <3>1. Changed(job[t]["ask"])' = Changed(j)
      BY <1>3, <1>5, <2>5, <2>6 DEF Changed, Tree
    <3>2. ApplyI(job[t]["ask"])'
      <4>1. \A p \in Paths : /\ p \in left => files[p] = Tree(record.expected)[p]
                             /\ p \in Changed(j) \ left => files[p] = Tree(record.next)[p]
        BY <1>3, <2>3, <2>4
      <4>. QED  BY <1>3, <1>5, <2>0, <2>3, <2>5, <2>6, <3>1, <4>1 DEF ApplyI, Tree
    <3>3. record = Recorded(record.expected, record.next)
      BY <1>2, <2>0 DEF Recorded, RecordType
    <3>4. (record = Recorded(job[t]["ask"].expected, job[t]["ask"].next))'
      BY <2>0, <2>5, <2>6, <3>3 DEF Recorded
    <3>. QED  BY <2>5, <2>6, <3>2, <3>4 DEF PublishI
  <2>12. JobsI'
    <3>1. DOMAIN commits \subseteq DOMAIN commits'  BY <1>5
    <3>. QED  BY <1>0, <1>1, <1>6, <2>6, <2>10, <2>11, <3>1, JobsAlone
  <2>13. QuietI'  BY <1>4, <1>8, <2>0 DEF QuietI
  <2>. QED  BY <2>2, <2>8, <2>9, <2>12, <2>13 DEF IInv
<1>12. \/ Set(t, "ask", NoJob) /\ Released /\ UNCHANGED <<record, filesLock>>
       \/ /\ \/ record.state = "empty"
             \/ record.state = "recorded" /\ branch = j.next
          /\ record' = NoRecord
          /\ Set(t, "ask", NoJob) /\ Released /\ UNCHANGED filesLock
       \/ /\ record.state = "recorded" /\ branch = j.expected /\ Third(j) = {}
          /\ Set(t, "ask", new) /\ filesLock' = <<t, "ask">> /\ UNCHANGED <<record, gitLock>>
  BY DEF Recover
<1>. QED  BY <1>9, <1>10, <1>11, <1>12

(***************************************************************************)
(* Saves                                                                   *)
(***************************************************************************)

LEMMA TabSet ==
  ASSUME HandleTypes, NEW t \in Tabs, NEW x \in TabType, tab' = [tab EXCEPT ![t] = x],
         x.answered <= x.requested, x.save.pc = "writing" => x.save.path \in Paths,
         job' \in [Tabs -> [Jobs -> JobType]], spent' \in SpentType,
         gitLock' \in {gitLock, Nobody}, filesLock' \in {filesLock, Nobody, <<t, "save">>}
  PROVE  HandleTypes' /\ tab'[t] = x /\ \A u \in Tabs : u # t => tab'[u] = tab[u]
<1>1. tab \in [Tabs -> TabType]  BY DEF HandleTypes
<1>2. /\ tab' \in [Tabs -> TabType] /\ tab'[t] = x
      /\ \A u \in Tabs : u # t => tab'[u] = tab[u]
  BY <1>1
<1>3. gitLock' \in {Nobody} \cup (Tabs \X Jobs)  BY DEF HandleTypes
<1>4. filesLock' \in {Nobody} \cup (Tabs \X {"ask", "save"})  BY DEF HandleTypes
<1>5. \A u \in Tabs : tab'[u].answered <= tab'[u].requested  BY <1>2 DEF HandleTypes
<1>6. \A u \in Tabs : tab'[u].save.pc = "writing" => tab'[u].save.path \in Paths
  BY <1>2 DEF HandleTypes
<1>. QED  BY <1>2, <1>3, <1>4, <1>5, <1>6 DEF HandleTypes

(* A user put c at p while no publication is under way.                    *)
LEMMA UserPut ==
  ASSUME RepoI, JobsI, HandleTypes, NEW p \in Paths, NEW c \in Contents, files' = Put(p, c), Wrote(p, c),
         UNCHANGED repository, job' = job,
         \A t \in Tabs, k \in Jobs : job[t][k].pc \notin Publishing
  PROVE  /\ RepoI' /\ JobsI' /\ \A q \in Paths : q # p => files'[q] = files[q]
<1>0. UNCHANGED <<index, branch, tracking, remote, record, commits>>  BY DEF repository
<1>1. RepoTypes /\ CommitsI /\ RecordI /\ FilesI /\ NoSaveLost /\ CheckpointsAreMine
  BY DEF RepoI
<1>2. files \in Trees /\ mine \in Trees /\ written \in [Paths -> SUBSET Contents]
  BY <1>1 DEF RepoTypes
<1>3. /\ files' \in Trees /\ files'[p] = c /\ \A q \in Paths : q # p => files'[q] = files[q]
  BY <1>2 DEF Put, Trees
<1>4. /\ mine' \in Trees /\ mine'[p] = c /\ \A q \in Paths : q # p => mine'[q] = mine[q]
  BY <1>2 DEF Wrote, Trees
<1>5. /\ written' \in [Paths -> SUBSET Contents] /\ c \in written'[p]
      /\ \A q \in Paths : q # p => written'[q] = written[q]
      /\ \A q \in Paths : written[q] \subseteq written'[q]
  <2>1. written' = [written EXCEPT ![p] = written[p] \cup {c}]  BY DEF Wrote
  <2>2. written[p] \cup {c} \in SUBSET Contents  BY <1>2
  <2>. QED  BY <1>2, <2>1, <2>2
<1>6. Mine(p)' /\ \A q \in Paths : Mine(q) => Mine(q)'
  BY <1>3, <1>4, <1>5 DEF Mine
<1>7. RepoTypes'  BY <1>0, <1>1, <1>3, <1>4, <1>5 DEF RepoTypes
<1>8. CommitsI'  BY <1>0, <1>1 DEF CommitsI, Past
<1>9. RecordI'  BY <1>0, <1>1 DEF RecordI, Past
<1>10. FilesI'
  <2>1. ASSUME record.state # "recorded", NEW q \in Paths
        PROVE  files'[q] = Tree(branch)'[q] \/ Mine(q)'
    <3>1. CASE q = p  BY <1>6, <3>1
    <3>2. CASE q # p
      <4>1. files[q] = Tree(branch)[q] \/ Mine(q)  BY <1>1, <2>1 DEF FilesI
      <4>. QED  BY <1>0, <1>3, <1>6, <3>2, <4>1 DEF Tree
    <3>. QED  BY <3>1, <3>2
  <2>2. ASSUME record.state = "recorded", NEW q \in Paths
        PROVE  /\ \/ files'[q] = Tree(record.expected)'[q] \/ files'[q] = Tree(record.next)'[q]
                  \/ Mine(q)'
                  \/ files'[q] = Empty /\ Tree(record.expected)'[q] # Tree(record.next)'[q]
               /\ branch = record.next => files'[q] = Tree(record.next)'[q] \/ Mine(q)'
    <3>1. CASE q = p  BY <1>6, <3>1
    <3>2. CASE q # p
      <4>1. /\ \/ files[q] = Tree(record.expected)[q] \/ files[q] = Tree(record.next)[q]
               \/ Mine(q)
               \/ files[q] = Empty /\ Tree(record.expected)[q] # Tree(record.next)[q]
            /\ branch = record.next => files[q] = Tree(record.next)[q] \/ Mine(q)
        BY <1>1, <2>2 DEF FilesI
      <4>. QED  BY <1>0, <1>3, <1>6, <3>2, <4>1 DEF Tree
    <3>. QED  BY <3>1, <3>2
  <2>. QED  BY <1>0, <2>1, <2>2 DEF FilesI
<1>11. NoSaveLost'
  <2>1. ASSUME NEW q \in Paths
        PROVE  files'[q] = mine'[q] \/ \E d \in Past(branch)' : Tree(d)'[q] = mine'[q]
    <3>1. CASE q = p  BY <1>3, <1>4, <3>1
    <3>2. CASE q # p
      <4>1. files[q] = mine[q] \/ \E d \in Past(branch) : Tree(d)[q] = mine[q]
        BY <1>1 DEF NoSaveLost
      <4>. QED  BY <1>0, <1>3, <1>4, <3>2, <4>1 DEF Past, Tree
    <3>. QED  BY <3>1, <3>2
  <2>. QED  BY <2>1 DEF NoSaveLost
<1>12. CheckpointsAreMine'  BY <1>0, <1>1, <1>5 DEF CheckpointsAreMine, Tree
<1>13. RepoI'  BY <1>7, <1>8, <1>9, <1>10, <1>11, <1>12 DEF RepoI
<1>14. ASSUME NEW t \in Tabs, NEW k \in Jobs
       PROVE  CaptureI(job[t][k])' /\ PublishI(job[t][k])'
  <2>1. /\ CaptureI(job[t][k]) /\ PublishI(job[t][k]) /\ job'[t][k] = job[t][k]
        /\ job[t][k].pc \notin Publishing
    BY DEF JobsI
  <2>2. CaptureI(job[t][k])'
    <3>1. ASSUME NEW q \in DOMAIN job[t][k].seen, job[t][k].pc = "capture", q \in Paths
          PROVE  /\ files'[q] = job[t][k].seen[q] \/ Mine(q)'
                 /\ job[t][k].seen[q] = Tree(branch)[q] \/ job[t][k].seen[q] \in written'[q]
      <4>1. /\ files[q] = job[t][k].seen[q] \/ Mine(q)
            /\ job[t][k].seen[q] = Tree(branch)[q] \/ job[t][k].seen[q] \in written[q]
        BY <2>1, <3>1 DEF CaptureI
      <4>2. files'[q] = job[t][k].seen[q] \/ Mine(q)'
        <5>1. CASE q = p  BY <1>6, <5>1
        <5>2. CASE q # p  BY <1>3, <1>6, <3>1, <4>1, <5>2
        <5>. QED  BY <5>1, <5>2
      <4>. QED  BY <1>5, <3>1, <4>1, <4>2
    <3>2. \A q \in DOMAIN job[t][k].seen : q \in Paths
      <4>1. job[t][k].seen \in Seen  BY JobTyped DEF JobType
      <4>2. PICK S \in SUBSET Paths : job[t][k].seen \in [S -> Contents]  BY <4>1 DEF Seen
      <4>. QED  BY <4>2
    <3>. QED  BY <1>0, <2>1, <3>1, <3>2 DEF CaptureI, Tree
  <2>3. PublishI(job[t][k])'
    BY <1>0, <2>1 DEF PublishI, Publishing, Tree, Past
  <2>. QED  BY <2>2, <2>3
<1>. QED  BY <1>3, <1>13, <1>14 DEF JobsI

LEMMA NobodyPublishes ==
  ASSUME LocksI, \A t \in Tabs : filesLock # <<t, "ask">>
  PROVE  \A t \in Tabs, k \in Jobs : job[t][k].pc \notin Publishing
<1>1. ASSUME NEW t \in Tabs, NEW k \in Jobs PROVE job[t][k].pc \notin Publishing
  <2>1. CASE k = "ask"  BY <2>1 DEF LocksI
  <2>2. CASE k = "auto"  BY <2>2 DEF LocksI, AutoI, Publishing
  <2>. QED  BY <2>1, <2>2 DEF Jobs
<1>. QED  BY <1>1

LEMMA SameJobs ==
  ASSUME JobsI, job' = job, UNCHANGED <<files, branch, record, commits, mine, written>>
  PROVE  JobsI'
<1>1. ASSUME NEW u \in Tabs, NEW l \in Jobs
      PROVE  CaptureI(job[u][l])' /\ PublishI(job[u][l])'
  <2>1. CaptureI(job[u][l]) /\ PublishI(job[u][l])  BY DEF JobsI
  <2>2. CaptureI(job[u][l])'  BY <2>1 DEF CaptureI, Mine, Tree
  <2>3. ASSUME ApplyI(job[u][l]) PROVE ApplyI(job[u][l])'
    <3>1. Changed(job[u][l])' = Changed(job[u][l])  BY DEF Changed, Tree
    <3>. QED  BY <2>3, <3>1 DEF ApplyI, Tree
  <2>4. PublishI(job[u][l])'  BY <2>1, <2>3 DEF PublishI, Recorded, Tree, Past
  <2>. QED  BY <2>2, <2>4
<1>. QED  BY <1>1 DEF JobsI

LEMMA SaveBeginsStep ==
  ASSUME IInv, NEW t \in Tabs, NEW p \in Paths, SaveBegins(t, p)
  PROVE  IInv'
<1>0. RepoI /\ HandleTypes /\ LocksI /\ JobsI  BY DEF IInv
<1>1. /\ tab[t].open = "open" /\ tab[t].save.pc = "idle" /\ filesLock = Nobody
      /\ filesLock' = <<t, "save">> /\ spent' = [spent EXCEPT !.saves = @ + 1]
      /\ UNCHANGED repository /\ gitLock' = gitLock /\ job' = job
  BY DEF SaveBegins
<1>2. PICK c \in {Fresh, Absent} :
        tab' = [tab EXCEPT ![t].save = [pc |-> "writing", path |-> p, content |-> c]]
  BY DEF SaveBegins
<1>3. spent \in SpentType /\ spent' \in SpentType /\ spent'.faults = spent.faults
  <2>1. spent \in SpentType  BY <1>0 DEF HandleTypes
  <2>. QED  BY <1>1, <2>1 DEF SpentType
<1>4. c \in Nat
  <2>1. spent.saves \in Nat /\ spent.merges \in Nat  BY <1>3 DEF SpentType
  <2>. QED  BY <2>1 DEF Fresh, Absent
<1>. DEFINE s == [pc |-> "writing", path |-> p, content |-> c]
            x == [tab[t] EXCEPT !.save = s]
<1>5. tab[t] \in TabType  BY <1>0, TabTyped
<1>6. s \in SaveType /\ s.pc = "writing" /\ s.path = p  BY <1>4 DEF SaveType
<1>. HIDE DEF s
<1>7. /\ x \in TabType /\ x.save = s /\ x.open = tab[t].open
      /\ x.answered = tab[t].answered /\ x.requested = tab[t].requested
  BY <1>5, <1>6 DEF TabType
<1>8. tab' = [tab EXCEPT ![t] = x]  BY <1>0, <1>2 DEF HandleTypes, s
<1>. HIDE DEF x
<1>9. HandleTypes' /\ tab'[t] = x /\ \A u \in Tabs : u # t => tab'[u] = tab[u]
  <2>1. x.answered <= x.requested  BY <1>0, <1>7 DEF HandleTypes
  <2>2. job' \in [Tabs -> [Jobs -> JobType]]  BY <1>0, <1>1 DEF HandleTypes
  <2>3. x.save.pc = "writing" => x.save.path \in Paths  BY <1>6, <1>7
  <2>4. gitLock' \in {gitLock, Nobody} /\ filesLock' \in {filesLock, Nobody, <<t, "save">>}
    BY <1>1
  <2>. QED  BY <1>0, <1>3, <1>7, <1>8, <2>1, <2>2, <2>3, <2>4, TabSet
<1>10. \A u \in Tabs, k \in Jobs : job[u][k].pc \notin Publishing
  BY <1>0, <1>1, LockNames, NobodyPublishes
<1>11. RepoI' /\ JobsI' /\ \A q \in Paths : q # p => files'[q] = files[q]
  <2>1. CASE files' = Put(p, Empty) /\ Wrote(p, Empty)
    BY <1>0, <1>1, <1>10, <2>1, ContentsFacts, UserPut
  <2>2. CASE UNCHANGED <<files, users>>
    <3>1. UNCHANGED <<files, repository, users>>  BY <1>1, <2>2
    <3>2. RepoI'  BY <1>0, <3>1, RepositoryKept
    <3>3. UNCHANGED <<files, branch, record, commits, mine, written>>
      BY <3>1 DEF repository, users
    <3>4. JobsI'  BY <1>0, <1>1, <3>3, SameJobs
    <3>. QED  BY <2>2, <3>2, <3>4
  <2>. QED  BY <2>1, <2>2 DEF SaveBegins
<1>12. LocksI'
  <2>1. \A u \in Tabs, k \in Jobs : job'[u][k].pc \in Locked <=> gitLock' = <<u, k>>
    BY <1>0, <1>1 DEF LocksI
  <2>2. ASSUME NEW u \in Tabs
        PROVE  /\ job'[u]["ask"].pc \in Publishing <=> filesLock' = <<u, "ask">>
               /\ tab'[u].save.pc = "writing" <=> filesLock' = <<u, "save">>
    <3>1. job'[u]["ask"].pc \notin Publishing  BY <1>1, <1>10 DEF Jobs
    <3>2. filesLock # <<u, "save">>  BY <1>1, LockNames
    <3>3. u # t => tab'[u].save.pc # "writing"  BY <1>0, <1>9, <3>2 DEF LocksI
    <3>. QED  BY <1>1, <1>6, <1>7, <1>9, <3>1, <3>3
  <2>3. \A u \in Tabs : AutoI(job[u]["auto"])'
    BY <1>0, <1>1 DEF LocksI, AutoI
  <2>. QED  BY <2>1, <2>2, <2>3 DEF LocksI
<1>13. QuietI'
  <2>. SUFFICES ASSUME spent.faults = 0 PROVE QuietTabs' /\ QuietRecord' /\ QuietFiles'
    BY <1>3 DEF QuietI
  <2>1. QuietTabs /\ QuietRecord /\ QuietFiles  BY DEF IInv, QuietI
  <2>2. QuietTabs'
    <3>1. ASSUME NEW u \in Tabs
          PROVE  /\ tab'[u].open \in {"open", "never"}
                 /\ tab'[u].save.pc # "idle" => tab'[u].open = "open"
                 /\ tab'[u].answered < tab'[u].requested =>
                        tab'[u].open = "open" /\ job'[u]["auto"].pc # "idle"
                 /\ job'[u]["ask"].pc \in Publishing => job'[u]["ask"].kind # "recover"
      BY <1>1, <1>7, <1>9, <2>1 DEF QuietTabs
    <3>. QED  BY <3>1 DEF QuietTabs
  <2>3. QuietRecord'  BY <1>1, <2>1 DEF QuietRecord, repository
  <2>4. ASSUME NEW q \in Paths
        PROVE  Pending(q)' \/ (SeenNow(q)' /\ (Busy' \/ files'[q] = Tree(branch)'[q]))
    <3>1. CASE q = p
      <4>1. tab'[t].save.pc # "idle" /\ tab'[t].save.path = q
        BY <1>6, <1>7, <1>9, <3>1
      <4>. QED  BY <4>1 DEF Pending
    <3>2. CASE q # p /\ Pending(q)
      <4>1. PICK u \in Tabs : \/ tab[u].save.pc # "idle" /\ tab[u].save.path = q
                              \/ tab[u].answered < tab[u].requested
        BY <3>2 DEF Pending
      <4>2. \/ tab'[u].save.pc # "idle" /\ tab'[u].save.path = q
            \/ tab'[u].answered < tab'[u].requested
        BY <1>1, <1>7, <1>9, <4>1
      <4>. QED  BY <4>2 DEF Pending
    <3>3. CASE q # p /\ ~Pending(q)
      <4>1. SeenNow(q) /\ (Busy \/ files[q] = Tree(branch)[q])
        BY <2>1, <3>3 DEF QuietFiles
      <4>2. files'[q] = files[q] /\ branch' = branch /\ commits' = commits
        BY <1>1, <1>11, <3>3 DEF repository
      <4>3. SeenNow(q)'  BY <1>1, <4>1, <4>2 DEF SeenNow, Capturing
      <4>4. Busy => Busy'  BY <1>1 DEF Busy, Capturing
      <4>. QED  BY <4>1, <4>2, <4>3, <4>4 DEF Tree
    <3>. QED  BY <3>1, <3>2, <3>3
  <2>5. QuietFiles'  BY <2>4 DEF QuietFiles
  <2>. QED  BY <2>2, <2>3, <2>5
<1>. QED  BY <1>9, <1>11, <1>12, <1>13 DEF IInv

LEMMA SaveEndsStep ==
  ASSUME IInv, NEW t \in Tabs, SaveEnds(t)
  PROVE  IInv'
<1>. DEFINE s == tab[t].save
<1>0. RepoI /\ HandleTypes /\ LocksI /\ JobsI  BY DEF IInv
<1>1. /\ s.pc = "writing" /\ filesLock' = Nobody
      /\ UNCHANGED repository /\ gitLock' = gitLock /\ job' = job
  BY DEF SaveEnds
<1>2. PICK pc \in {"idle", "landed"} :
        /\ tab' = [tab EXCEPT ![t].save.pc = pc]
        /\ (pc = "landed" /\ Works) \/ FailsNow
        /\ \/ \E c \in {s.content, Absent} : files' = Put(s.path, c) /\ Wrote(s.path, c)
           \/ UNCHANGED <<files, users>>
  BY DEF SaveEnds
<1>3. /\ tab[t] \in TabType /\ s \in SaveType /\ s.path \in Paths
      /\ s.content \in Contents /\ filesLock = <<t, "save">>
  <2>1. tab[t] \in TabType  BY <1>0, TabTyped
  <2>2. s \in SaveType  BY <2>1 DEF TabType
  <2>3. s.content \in Contents  BY <2>2 DEF SaveType, Contents
  <2>. QED  BY <1>0, <1>1, <2>1, <2>2, <2>3 DEF HandleTypes, LocksI
<1>4. spent' \in SpentType /\ ((pc = "landed" /\ spent'.faults = spent.faults) \/ spent'.faults # 0)
  BY <1>0, <1>2, WorksSpent, FaultSpent
<1>. DEFINE y == [s EXCEPT !.pc = pc]
            x == [tab[t] EXCEPT !.save = y]
<1>5. y \in SaveType /\ y.pc = pc /\ y.path = s.path  BY <1>3 DEF SaveType
<1>6. tab' = [tab EXCEPT ![t] = x]
  <2>1. tab \in [Tabs -> TabType]  BY <1>0 DEF HandleTypes
  <2>. QED  BY <1>2, <2>1
<1>. HIDE DEF y
<1>7. /\ x \in TabType /\ x.save = y /\ x.open = tab[t].open
      /\ x.answered = tab[t].answered /\ x.requested = tab[t].requested
  BY <1>3, <1>5 DEF TabType
<1>. HIDE DEF x
<1>8. HandleTypes' /\ tab'[t] = x /\ \A u \in Tabs : u # t => tab'[u] = tab[u]
  <2>1. x.answered <= x.requested  BY <1>0, <1>7 DEF HandleTypes
  <2>2. job' \in [Tabs -> [Jobs -> JobType]]  BY <1>0, <1>1 DEF HandleTypes
  <2>3. x.save.pc = "writing" => x.save.path \in Paths  BY <1>3, <1>5, <1>7
  <2>4. gitLock' \in {gitLock, Nobody} /\ filesLock' \in {filesLock, Nobody, <<t, "save">>}
    BY <1>1
  <2>. QED  BY <1>0, <1>4, <1>6, <1>7, <2>1, <2>2, <2>3, <2>4, TabSet
<1>9. \A u \in Tabs, k \in Jobs : job[u][k].pc \notin Publishing
  <2>1. \A u \in Tabs : filesLock # <<u, "ask">>  BY <1>3
  <2>. QED  BY <1>0, <2>1, NobodyPublishes
<1>10. RepoI' /\ JobsI' /\ \A q \in Paths : q # s.path => files'[q] = files[q]
  <2>1. CASE \E c \in {s.content, Absent} : files' = Put(s.path, c) /\ Wrote(s.path, c)
    <3>1. PICK c \in {s.content, Absent} : files' = Put(s.path, c) /\ Wrote(s.path, c)
      BY <2>1
    <3>2. c \in Contents  BY <1>3, ContentsFacts
    <3>. HIDE DEF s
    <3>. QED  BY <1>0, <1>1, <1>3, <1>9, <3>1, <3>2, UserPut
  <2>2. CASE UNCHANGED <<files, users>>
    <3>1. UNCHANGED <<files, repository, users>>  BY <1>1, <2>2
    <3>2. RepoI'  BY <1>0, <3>1, RepositoryKept
    <3>3. UNCHANGED <<files, branch, record, commits, mine, written>>
      BY <3>1 DEF repository, users
    <3>4. JobsI'  BY <1>0, <1>1, <3>3, SameJobs
    <3>. QED  BY <2>2, <3>2, <3>4
  <2>. QED  BY <1>2, <2>1, <2>2
<1>11. LocksI'
  <2>1. \A u \in Tabs, k \in Jobs : job'[u][k].pc \in Locked <=> gitLock' = <<u, k>>
    BY <1>0, <1>1 DEF LocksI
  <2>2. ASSUME NEW u \in Tabs
        PROVE  /\ job'[u]["ask"].pc \in Publishing <=> filesLock' = <<u, "ask">>
               /\ tab'[u].save.pc = "writing" <=> filesLock' = <<u, "save">>
    <3>1. job'[u]["ask"].pc \notin Publishing  BY <1>1, <1>9 DEF Jobs
    <3>2. filesLock' # <<u, "save">> /\ filesLock' # <<u, "ask">>  BY <1>1, LockNames
    <3>3. u # t => tab'[u].save.pc # "writing"  BY <1>0, <1>3, <1>8 DEF LocksI
    <3>4. tab'[t].save.pc # "writing"  BY <1>2, <1>5, <1>7, <1>8
    <3>. QED  BY <3>1, <3>2, <3>3, <3>4
  <2>3. \A u \in Tabs : AutoI(job[u]["auto"])'
    BY <1>0, <1>1 DEF LocksI, AutoI
  <2>. QED  BY <2>1, <2>2, <2>3 DEF LocksI
<1>12. QuietI'
  <2>. SUFFICES ASSUME spent'.faults = 0 PROVE QuietTabs' /\ QuietRecord' /\ QuietFiles'
    BY DEF QuietI
  <2>0. pc = "landed" /\ spent.faults = 0  BY <1>4
  <2>1. QuietTabs /\ QuietRecord /\ QuietFiles  BY <2>0 DEF IInv, QuietI
  <2>2. QuietTabs'
    <3>1. ASSUME NEW u \in Tabs
          PROVE  /\ tab'[u].open \in {"open", "never"}
                 /\ tab'[u].save.pc # "idle" => tab'[u].open = "open"
                 /\ tab'[u].answered < tab'[u].requested =>
                        tab'[u].open = "open" /\ job'[u]["auto"].pc # "idle"
                 /\ job'[u]["ask"].pc \in Publishing => job'[u]["ask"].kind # "recover"
      BY <1>1, <1>7, <1>8, <2>1 DEF QuietTabs
    <3>. QED  BY <3>1 DEF QuietTabs
  <2>3. QuietRecord'  BY <1>1, <2>1 DEF QuietRecord, repository
  <2>4. ASSUME NEW q \in Paths
        PROVE  Pending(q)' \/ (SeenNow(q)' /\ (Busy' \/ files'[q] = Tree(branch)'[q]))
    <3>1. CASE q = s.path
      <4>1. tab'[t].save.pc # "idle" /\ tab'[t].save.path = q
        BY <1>5, <1>7, <1>8, <2>0, <3>1
      <4>. QED  BY <4>1 DEF Pending
    <3>2. CASE q # s.path /\ Pending(q)
      <4>1. PICK u \in Tabs : \/ tab[u].save.pc # "idle" /\ tab[u].save.path = q
                              \/ tab[u].answered < tab[u].requested
        BY <3>2 DEF Pending
      <4>2. \/ tab'[u].save.pc # "idle" /\ tab'[u].save.path = q
            \/ tab'[u].answered < tab'[u].requested
        BY <1>7, <1>8, <3>2, <4>1
      <4>. QED  BY <4>2 DEF Pending
    <3>3. CASE q # s.path /\ ~Pending(q)
      <4>1. SeenNow(q) /\ (Busy \/ files[q] = Tree(branch)[q])
        BY <2>1, <3>3 DEF QuietFiles
      <4>2. files'[q] = files[q] /\ branch' = branch /\ commits' = commits
        BY <1>1, <1>10, <3>3 DEF repository
      <4>3. SeenNow(q)'  BY <1>1, <4>1, <4>2 DEF SeenNow, Capturing
      <4>4. Busy => Busy'  BY <1>1 DEF Busy, Capturing
      <4>. QED  BY <4>1, <4>2, <4>3, <4>4 DEF Tree
    <3>. QED  BY <3>1, <3>2, <3>3
  <2>5. QuietFiles'  BY <2>4 DEF QuietFiles
  <2>. QED  BY <2>2, <2>3, <2>5
<1>. QED  BY <1>8, <1>10, <1>11, <1>12 DEF IInv

LEMMA SameLocks ==
  ASSUME LocksI, UNCHANGED locks, job' = job, SavesKept
  PROVE  LocksI'
  BY DEF LocksI, AutoI, locks, SavesKept

LEMMA SaveReportedStep ==
  ASSUME IInv, NEW t \in Tabs, SaveReported(t)
  PROVE  IInv'
<1>. DEFINE waiting == [NoJob EXCEPT !.pc = "waiting", !.kind = "commit"]
            asked == [tab[t] EXCEPT !.requested = tab[t].requested + 1, !.save = NoSave]
            closed == [tab[t] EXCEPT !.save = NoSave]
<1>0. RepoI /\ HandleTypes /\ LocksI /\ JobsI  BY DEF IInv
<1>1. "auto" \in Jobs  BY DEF Jobs
<1>2. /\ tab[t].save.pc = "landed" /\ UNCHANGED <<files, repository, users>>
      /\ UNCHANGED locks /\ spent' = spent
  BY DEF SaveReported
<1>3. gitLock' = gitLock /\ filesLock' = filesLock /\ spent' \in SpentType
  BY <1>0, <1>2 DEF locks, HandleTypes
<1>4. RepoI'  BY <1>0, <1>2, RepositoryKept
<1>5. UNCHANGED <<files, branch, record, commits, mine, written>>
  BY <1>2 DEF repository, users
<1>6. tab[t] \in TabType /\ tab[t].requested \in Nat /\ tab[t].answered \in Nat
  BY <1>0, TabTyped DEF TabType
<1>7. NoSave \in SaveType /\ NoSave.pc = "idle"  BY DEF NoSave, SaveType, Absent
<1>8. tab \in [Tabs -> TabType] /\ tab[t].answered <= tab[t].requested  BY <1>0 DEF HandleTypes
<1>9. CASE /\ tab[t].open = "open"
           /\ tab' = [tab EXCEPT ![t].requested = @ + 1, ![t].save = NoSave]
           /\ job' = IF job[t]["auto"].pc = "idle"
                       THEN [job EXCEPT ![t]["auto"] = waiting] ELSE job
  <2>1. tab' = [tab EXCEPT ![t] = asked]  BY <1>8, <1>9
  <2>2. /\ asked \in TabType /\ asked.requested = tab[t].requested + 1
        /\ asked.answered = tab[t].answered /\ asked.save.pc = "idle" /\ asked.open = "open"
    <3>1. tab[t].open = "open"  BY <1>9
    <3>2. tab[t].requested + 1 \in Nat  BY <1>6
    <3>. DEFINE n == tab[t].requested + 1
                half == [tab[t] EXCEPT !.requested = n]
    <3>. HIDE DEF n
    <3>3. half \in TabType /\ half.requested = n /\ half.open = "open"
          /\ half.answered = tab[t].answered
      BY <1>6, <3>1, <3>2 DEF TabType, n
    <3>4. asked = [half EXCEPT !.save = NoSave]  BY <1>6, <1>7 DEF TabType, n
    <3>. HIDE DEF asked, half
    <3>5. /\ asked \in TabType /\ asked.requested = n /\ asked.save = NoSave
          /\ asked.answered = tab[t].answered /\ asked.open = "open"
      BY <1>7, <3>3, <3>4 DEF TabType
    <3>. QED  BY <1>7, <3>5 DEF n
  <2>3. /\ waiting \in JobType /\ waiting.pc = "waiting" /\ waiting.kind = "commit"
        /\ DOMAIN waiting.seen = {} /\ ~waiting.applied
    BY WaitingTyped DEF Kinds
  <2>. HIDE DEF asked, waiting
  <2>4. /\ Replaced(t, "auto") /\ job'[t]["auto"].pc # "idle"
        /\ CaptureI(job[t]["auto"])' /\ PublishI(job[t]["auto"])' /\ AutoI(job[t]["auto"])'
        /\ job'[t]["auto"].pc \in Locked <=> job[t]["auto"].pc \in Locked
        /\ job'[t]["auto"].pc \in Publishing <=> job[t]["auto"].pc \in Publishing
        /\ \A u \in Tabs, k \in Jobs : job[u][k].pc # "idle" => job'[u][k] = job[u][k]
    <3>1. CASE job[t]["auto"].pc = "idle"
      <4>1. Set(t, "auto", waiting)  BY <1>9, <3>1 DEF Set
      <4>2. job'[t]["auto"] = waiting /\ Replaced(t, "auto")
        BY <1>0, <1>1, <2>3, <4>1, SetReplaces
      <4>3. CaptureI(job[t]["auto"])' /\ PublishI(job[t]["auto"])'
        BY <1>1, <2>3, <4>2, IdleJobs
      <4>4. AutoI(job[t]["auto"])'  BY <2>3, <4>2 DEF AutoI
      <4>5. \A u \in Tabs, k \in Jobs : job[u][k].pc # "idle" => job'[u][k] = job[u][k]
        BY <3>1, <4>2 DEF Replaced
      <4>6. /\ job'[t]["auto"].pc \in Locked <=> job[t]["auto"].pc \in Locked
            /\ job'[t]["auto"].pc \in Publishing <=> job[t]["auto"].pc \in Publishing
        BY <2>3, <3>1, <4>2 DEF Locked, Publishing
      <4>. QED  BY <2>3, <4>2, <4>3, <4>4, <4>5, <4>6
    <3>2. CASE job[t]["auto"].pc # "idle"
      <4>1. job' = job  BY <1>9, <3>2
      <4>2. Replaced(t, "auto")  BY <1>0, <1>1, <4>1, SameReplaces
      <4>3. JobsI'  BY <1>0, <1>5, <4>1, SameJobs
      <4>4. CaptureI(job[t]["auto"])' /\ PublishI(job[t]["auto"])'  BY <1>1, <4>3 DEF JobsI
      <4>5. AutoI(job[t]["auto"])'  BY <1>0, <4>1 DEF LocksI, AutoI
      <4>. QED  BY <3>2, <4>1, <4>2, <4>4, <4>5
    <3>. QED  BY <3>1, <3>2
  <2>5. JobsI'  BY <1>0, <1>1, <1>5, <2>4, JobsKept
  <2>6. HandleTypes' /\ tab'[t] = asked /\ \A u \in Tabs : u # t => tab'[u] = tab[u]
    <3>1. asked.answered <= asked.requested  BY <1>6, <1>8, <2>2
    <3>2. job' \in [Tabs -> [Jobs -> JobType]]  BY <2>4 DEF Replaced
    <3>3. asked.save.pc = "writing" => asked.save.path \in Paths  BY <2>2
    <3>4. gitLock' \in {gitLock, Nobody} /\ filesLock' \in {filesLock, Nobody, <<t, "save">>}
      BY <1>3
    <3>. QED  BY <1>0, <1>3, <2>1, <2>2, <3>1, <3>2, <3>3, <3>4, TabSet
  <2>7. SavesKept  BY <1>2, <2>2, <2>6 DEF SavesKept
  <2>8. LocksI'  BY <1>0, <1>1, <1>2, <2>4, <2>7, LocksKept
  <2>9. QuietI'
    <3>. SUFFICES ASSUME spent.faults = 0 PROVE QuietTabs' /\ QuietRecord' /\ QuietFiles'
      BY <1>2 DEF QuietI
    <3>1. QuietTabs /\ QuietRecord /\ QuietFiles  BY DEF IInv, QuietI
    <3>2. QuietTabs'
      <4>1. ASSUME NEW u \in Tabs
            PROVE  /\ tab'[u].open \in {"open", "never"}
                   /\ tab'[u].save.pc # "idle" => tab'[u].open = "open"
                   /\ tab'[u].answered < tab'[u].requested =>
                          tab'[u].open = "open" /\ job'[u]["auto"].pc # "idle"
                   /\ job'[u]["ask"].pc \in Publishing => job'[u]["ask"].kind # "recover"
        <5>1. job'[u]["ask"] = job[u]["ask"]  BY <2>4 DEF Replaced, Jobs
        <5>2. CASE u = t  BY <2>2, <2>4, <2>6, <3>1, <5>1, <5>2 DEF QuietTabs
        <5>3. CASE u # t
          <6>1. job'[u]["auto"] = job[u]["auto"]  BY <2>4, <5>3 DEF Replaced, Jobs
          <6>. QED  BY <2>6, <3>1, <5>1, <5>3, <6>1 DEF QuietTabs
        <5>. QED  BY <5>2, <5>3
      <4>. QED  BY <4>1 DEF QuietTabs
    <3>3. QuietRecord'
      <4>1. \A u \in Tabs : job'[u]["ask"] = job[u]["ask"]  BY <2>4 DEF Replaced, Jobs
      <4>. QED  BY <1>5, <3>1, <4>1 DEF QuietRecord
    <3>4. QuietFiles'
      <4>1. tab'[t].answered < tab'[t].requested  BY <1>6, <1>8, <2>2, <2>6
      <4>2. \A p \in Paths : Pending(p)'  BY <4>1 DEF Pending
      <4>. QED  BY <4>2 DEF QuietFiles
    <3>. QED  BY <3>2, <3>3, <3>4
  <2>. QED  BY <1>4, <2>5, <2>6, <2>8, <2>9 DEF IInv
<1>10. CASE tab[t].open # "open" /\ tab' = [tab EXCEPT ![t].save = NoSave] /\ job' = job
  <2>1. tab' = [tab EXCEPT ![t] = closed]  BY <1>8, <1>10
  <2>2. /\ closed \in TabType /\ closed.requested = tab[t].requested
        /\ closed.answered = tab[t].answered /\ closed.save.pc = "idle"
    BY <1>6, <1>7 DEF TabType
  <2>. HIDE DEF closed
  <2>3. JobsI'  BY <1>0, <1>5, <1>10, SameJobs
  <2>4. HandleTypes' /\ tab'[t] = closed /\ \A u \in Tabs : u # t => tab'[u] = tab[u]
    <3>1. closed.answered <= closed.requested  BY <1>8, <2>2
    <3>2. job' \in [Tabs -> [Jobs -> JobType]]  BY <1>0, <1>10 DEF HandleTypes
    <3>3. closed.save.pc = "writing" => closed.save.path \in Paths  BY <2>2
    <3>4. gitLock' \in {gitLock, Nobody} /\ filesLock' \in {filesLock, Nobody, <<t, "save">>}
      BY <1>3
    <3>. QED  BY <1>0, <1>3, <2>1, <2>2, <3>1, <3>2, <3>3, <3>4, TabSet
  <2>5. SavesKept  BY <1>2, <2>2, <2>4 DEF SavesKept
  <2>6. LocksI'  BY <1>0, <1>2, <1>10, <2>5, SameLocks
  <2>7. spent'.faults # 0
    <3>1. spent.faults # 0  BY <1>2, <1>10 DEF IInv, QuietI, QuietTabs
    <3>. QED  BY <1>2, <3>1
  <2>. QED  BY <1>4, <2>3, <2>4, <2>6, <2>7, FaultStep
<1>. QED  BY <1>9, <1>10 DEF SaveReported

(***************************************************************************)
(* Closing, and a tab that dies                                            *)
(***************************************************************************)

LEMMA BeginCloseStep ==
  ASSUME IInv, NEW t \in Tabs, BeginClose(t)
  PROVE  IInv'
<1>. DEFINE x == [tab[t] EXCEPT !.open = "closing"]
<1>0. RepoI /\ HandleTypes /\ LocksI /\ JobsI  BY DEF IInv
<1>1. /\ FailsNow /\ tab' = [tab EXCEPT ![t].open = "closing"]
      /\ UNCHANGED <<files, repository, users>> /\ UNCHANGED locks /\ job' = job
  BY DEF BeginClose
<1>2. UNCHANGED <<files, branch, record, commits, mine, written>>
  BY <1>1 DEF repository, users
<1>3. RepoI'  BY <1>0, <1>1, RepositoryKept
<1>4. JobsI'  BY <1>0, <1>1, <1>2, SameJobs
<1>5. spent' \in SpentType /\ spent'.faults # 0  BY <1>0, <1>1, FaultSpent
<1>6. tab \in [Tabs -> TabType] /\ tab[t] \in TabType  BY <1>0, TabTyped DEF HandleTypes
<1>7. tab' = [tab EXCEPT ![t] = x]  BY <1>1, <1>6
<1>8. /\ x \in TabType /\ x.save = tab[t].save /\ x.answered = tab[t].answered
      /\ x.requested = tab[t].requested
  BY <1>6 DEF TabType
<1>. HIDE DEF x
<1>9. HandleTypes' /\ tab'[t] = x /\ \A u \in Tabs : u # t => tab'[u] = tab[u]
  <2>1. x.answered <= x.requested  BY <1>0, <1>8 DEF HandleTypes
  <2>2. job' \in [Tabs -> [Jobs -> JobType]]  BY <1>0, <1>1 DEF HandleTypes
  <2>3. x.save.pc = "writing" => x.save.path \in Paths  BY <1>0, <1>8 DEF HandleTypes
  <2>4. gitLock' \in {gitLock, Nobody} /\ filesLock' \in {filesLock, Nobody, <<t, "save">>}
    BY <1>1 DEF locks
  <2>. QED  BY <1>0, <1>5, <1>7, <1>8, <2>1, <2>2, <2>3, <2>4, TabSet
<1>10. SavesKept  BY <1>8, <1>9 DEF SavesKept
<1>11. LocksI'  BY <1>0, <1>1, <1>10, SameLocks
<1>. QED  BY <1>3, <1>4, <1>5, <1>9, <1>11, FaultStep

LEMMA ReopenStep ==
  ASSUME IInv, NEW t \in Tabs, Reopen(t)
  PROVE  IInv'
<1>0. RepoI /\ HandleTypes /\ LocksI /\ JobsI  BY DEF IInv
<1>1. /\ tab[t].open = "closing" /\ tab[t].save.pc = "idle" /\ tab' = [tab EXCEPT ![t] = NewTab]
      /\ UNCHANGED <<files, repository, users>> /\ UNCHANGED locks /\ job' = job /\ spent' = spent
  BY DEF Reopen
<1>2. UNCHANGED <<files, branch, record, commits, mine, written>>
  BY <1>1 DEF repository, users
<1>3. RepoI'  BY <1>0, <1>1, RepositoryKept
<1>4. JobsI'  BY <1>0, <1>1, <1>2, SameJobs
<1>5. spent' \in SpentType /\ spent'.faults # 0
  <2>1. spent.faults # 0  BY <1>1 DEF IInv, QuietI, QuietTabs
  <2>. QED  BY <1>0, <1>1, <2>1 DEF HandleTypes
<1>6. /\ NewTab \in TabType /\ NewTab.save.pc = "idle" /\ NewTab.answered <= NewTab.requested
  BY NewTabTyped DEF NewTab, NoSave
<1>7. HandleTypes' /\ tab'[t] = NewTab /\ \A u \in Tabs : u # t => tab'[u] = tab[u]
  <2>1. job' \in [Tabs -> [Jobs -> JobType]]  BY <1>0, <1>1 DEF HandleTypes
  <2>2. NewTab.save.pc = "writing" => NewTab.save.path \in Paths  BY <1>6
  <2>3. gitLock' \in {gitLock, Nobody} /\ filesLock' \in {filesLock, Nobody, <<t, "save">>}
    BY <1>1 DEF locks
  <2>. QED  BY <1>0, <1>1, <1>5, <1>6, <2>1, <2>2, <2>3, TabSet
<1>8. SavesKept  BY <1>1, <1>6, <1>7 DEF SavesKept
<1>9. LocksI'  BY <1>0, <1>1, <1>8, SameLocks
<1>. QED  BY <1>3, <1>4, <1>5, <1>7, <1>9, FaultStep

LEMMA CrashStep ==
  ASSUME IInv, NEW t \in Tabs, Crash(t)
  PROVE  IInv'
<1>0. RepoI /\ HandleTypes /\ LocksI /\ JobsI  BY DEF IInv
<1>1. /\ FailsNow /\ tab' = [tab EXCEPT ![t] = NewTab]
      /\ job' = [job EXCEPT ![t] = [k \in Jobs |-> NoJob]]
      /\ gitLock' = Dropped(gitLock, t) /\ filesLock' = Dropped(filesLock, t)
      /\ UNCHANGED <<files, repository, users>>
  BY DEF Crash
<1>2. UNCHANGED <<files, branch, record, commits, mine, written>>
  BY <1>1 DEF repository, users
<1>3. RepoI'  BY <1>0, <1>1, RepositoryKept
<1>4. spent' \in SpentType /\ spent'.faults # 0  BY <1>0, <1>1, FaultSpent
<1>5. /\ job' \in [Tabs -> [Jobs -> JobType]] /\ \A k \in Jobs : job'[t][k] = NoJob
      /\ \A u \in Tabs, k \in Jobs : u # t => job'[u][k] = job[u][k]
  BY <1>0, <1>1, NoJobTyped DEF HandleTypes
<1>6. NoJob.pc = "idle"  BY NoJobTyped
<1>7. /\ NewTab \in TabType /\ NewTab.save.pc = "idle" /\ NewTab.answered <= NewTab.requested
  BY NewTabTyped DEF NewTab, NoSave
<1>8. HandleTypes' /\ tab'[t] = NewTab /\ \A u \in Tabs : u # t => tab'[u] = tab[u]
  <2>1. NewTab.save.pc = "writing" => NewTab.save.path \in Paths  BY <1>7
  <2>2. gitLock' \in {gitLock, Nobody} /\ filesLock' \in {filesLock, Nobody, <<t, "save">>}
    BY <1>1 DEF Dropped
  <2>. QED  BY <1>0, <1>1, <1>4, <1>5, <1>7, <2>1, <2>2, TabSet
<1>9. JobsI'
  <2>1. ASSUME NEW u \in Tabs, NEW k \in Jobs
        PROVE  CaptureI(job[u][k])' /\ PublishI(job[u][k])'
    <3>1. CASE u = t
      <4>1. job'[u][k].pc = "idle"  BY <1>5, <1>6, <3>1
      <4>. QED  BY <4>1, IdleJobs
    <3>2. CASE u # t
      <4>1. job'[u][k] = job[u][k]  BY <1>5, <3>2
      <4>2. CaptureI(job[u][k]) /\ PublishI(job[u][k])  BY <1>0 DEF JobsI
      <4>3. CaptureI(job[u][k])'  BY <1>2, <4>1, <4>2 DEF CaptureI, Mine, Tree
      <4>4. ASSUME ApplyI(job[u][k]) PROVE ApplyI(job[u][k])'
        <5>1. Changed(job[u][k])' = Changed(job[u][k])  BY <1>2, <4>1 DEF Changed, Tree
        <5>. QED  BY <1>2, <4>1, <4>4, <5>1 DEF ApplyI, Tree
      <4>5. PublishI(job[u][k])'
        BY <1>2, <4>1, <4>2, <4>4 DEF PublishI, Recorded, Tree, Past
      <4>. QED  BY <4>3, <4>5
    <3>. QED  BY <3>1, <3>2
  <2>. QED  BY <2>1 DEF JobsI
<1>10. LocksI'
  <2>1. ASSUME NEW u \in Tabs, NEW k \in Jobs
        PROVE  job'[u][k].pc \in Locked <=> gitLock' = <<u, k>>
    <3>1. CASE u = t
      <4>1. job'[u][k].pc \notin Locked  BY <1>5, <1>6, <3>1 DEF Locked
      <4>2. gitLock' # <<u, k>>
        BY <1>1, <3>1, LockNames DEF Dropped
      <4>. QED  BY <4>1, <4>2
    <3>2. CASE u # t
      <4>1. gitLock' = <<u, k>> <=> gitLock = <<u, k>>
        BY <1>1, <3>2, LockNames DEF Dropped
      <4>. QED  BY <1>0, <1>5, <3>2, <4>1 DEF LocksI
    <3>. QED  BY <3>1, <3>2
  <2>2. ASSUME NEW u \in Tabs
        PROVE  /\ job'[u]["ask"].pc \in Publishing <=> filesLock' = <<u, "ask">>
               /\ tab'[u].save.pc = "writing" <=> filesLock' = <<u, "save">>
    <3>1. CASE u = t
      <4>1. job'[u]["ask"].pc \notin Publishing  BY <1>5, <1>6, <3>1 DEF Publishing, Jobs
      <4>2. filesLock' # <<u, "ask">> /\ filesLock' # <<u, "save">>
        BY <1>1, <3>1, LockNames DEF Dropped
      <4>. QED  BY <1>7, <1>8, <3>1, <4>1, <4>2
    <3>2. CASE u # t
      <4>1. /\ filesLock' = <<u, "ask">> <=> filesLock = <<u, "ask">>
            /\ filesLock' = <<u, "save">> <=> filesLock = <<u, "save">>
        BY <1>1, <3>2, LockNames DEF Dropped
      <4>2. job'[u]["ask"] = job[u]["ask"] /\ tab'[u] = tab[u]
        BY <1>5, <1>8, <3>2 DEF Jobs
      <4>. QED  BY <1>0, <4>1, <4>2 DEF LocksI
    <3>. QED  BY <3>1, <3>2
  <2>3. ASSUME NEW u \in Tabs PROVE AutoI(job[u]["auto"])'
    BY <1>0, <1>5, <1>6 DEF LocksI, AutoI, Jobs
  <2>. QED  BY <2>1, <2>2, <2>3 DEF LocksI
<1>. QED  BY <1>3, <1>4, <1>8, <1>9, <1>10, FaultStep

(***************************************************************************)
(* Every step, and the theorems                                            *)
(***************************************************************************)

LEMMA NextIInv == IInv /\ [Next]_vars => IInv'
<1>. SUFFICES ASSUME IInv, [Next]_vars PROVE IInv'
  OBVIOUS
<1>1. CASE UNCHANGED vars
  <2>1. /\ UNCHANGED <<files, repository, users>> /\ UNCHANGED locks
        /\ job' = job /\ tab' = tab /\ spent' = spent
    BY <1>1 DEF vars, repository, users, locks
  <2>2. RepoI /\ HandleTypes /\ LocksI /\ JobsI  BY DEF IInv
  <2>3. RepoI'  BY <2>1, <2>2, RepositoryKept
  <2>4. UNCHANGED <<files, branch, record, commits, mine, written>>
    BY <2>1 DEF repository, users
  <2>5. JobsI'  BY <2>1, <2>2, <2>4, SameJobs
  <2>6. HandleTypes'  BY <2>1, <2>2 DEF HandleTypes, locks
  <2>7. SavesKept  BY <2>1 DEF SavesKept
  <2>8. LocksI'  BY <2>1, <2>2, <2>7, SameLocks
  <2>9. QuietI'
    BY <2>1, <2>4 DEF IInv, QuietI, QuietTabs, QuietRecord, QuietFiles, Pending, SeenNow, Busy,
                      Capturing, Tree
  <2>. QED  BY <2>3, <2>5, <2>6, <2>8, <2>9 DEF IInv
<1>2. CASE Next
  <2>1. PICK t \in Tabs :
           \/ Save(t) \/ Settles(t) \/ Transfer(t) \/ Publish(t)
           \/ BeginClose(t) \/ Reopen(t) \/ Crash(t)
           \/ \E k \in Jobs : Commit(t, k)
           \/ \E kind \in Kinds : Ask(t, kind)
    BY <1>2 DEF Next
  <2>2. CASE Save(t)
    BY <2>2, SaveBeginsStep, SaveEndsStep, SaveReportedStep DEF Save
  <2>3. CASE Settles(t)  BY <2>3, SettlesStep
  <2>4. CASE Transfer(t)
    BY <2>4, FetchStep, PushPinsStep, PushEndsStep DEF Transfer
  <2>5. CASE Publish(t)
    BY <2>5, EnterIncomingStep, IncomingPreparedStep, AdmitStep, EnterRecoverStep, RecoverStep,
       ApplyStepStep, ApplyUnconfirmedStep, ApplyFailsStep, WriteIndexStep, MoveBranchStep,
       ClearRecordStep DEF Publish
  <2>6. CASE BeginClose(t) \/ Reopen(t) \/ Crash(t)
    BY <2>6, BeginCloseStep, ReopenStep, CrashStep
  <2>7. CASE \E k \in Jobs : Commit(t, k)
    BY <2>7, EnterCommitStep, CommitBuiltStep, IndexResetStep, CaptureFailsStep,
       RefusedByCloseStep, CaptureFileStep DEF Commit
  <2>8. CASE \E kind \in Kinds : Ask(t, kind)  BY <2>8, AskStep
  <2>. QED  BY <2>1, <2>2, <2>3, <2>4, <2>5, <2>6, <2>7, <2>8
<1>. QED  BY <1>1, <1>2

(* The inductive invariant: locks and their holders, the record and the    *)
(* branch, what every file may hold, and what the worker still owes.       *)
THEOREM FolderInvariant == Spec => []IInv
<1>1. Init => IInv  BY InitIInv
<1>2. IInv /\ [Next]_vars => IInv'  BY NextIInv
<1>. QED  BY <1>1, <1>2, PTL DEF Spec

LEMMA IInvTypes == IInv => TypeOK
<1>. SUFFICES ASSUME IInv PROVE TypeOK
  OBVIOUS
<1>1. RepoTypes /\ CommitsI /\ HandleTypes /\ LocksI  BY DEF IInv, RepoI
<1>2. record \in [state : {"none", "empty", "recorded"}, expected : 0..Len(commits),
                  next : 0..Len(commits)]
  BY <1>1 DEF RepoTypes, RecordType
<1>3. ASSUME NEW c \in DOMAIN commits PROVE Tree(c) \in Trees /\ Past(c) \subseteq 1..c
  <2>1. commits[c] \in CommitType  BY <1>1 DEF RepoTypes
  <2>. QED  BY <1>1, <2>1 DEF CommitType, CommitsI, Tree
<1>4. \A t \in Tabs, k \in Jobs :
        job[t][k].pc \in {"capture", "index", "publish", "apply", "branch", "readback", "recover"}
            => Holds(t, k)
  BY <1>1 DEF LocksI, Locked, Holds
<1>. QED  BY <1>1, <1>2, <1>3, <1>4 DEF TypeOK, RepoTypes, HandleTypes

(* No failed, abandoned or recovered publication leaves its own bytes      *)
(* behind as if they were local work (publish, recoverIncoming,            *)
(* clearRecord in history.ts), for every number of tabs, paths, saves,     *)
(* requests and failures.                                                  *)
THEOREM DirtyAlwaysMine == Spec => []DirtyIsMine
<1>1. IInv => DirtyIsMine
  BY IInvTypes DEF IInv, RepoI, FilesI, Mine, DirtyIsMine
<1>. QED  BY <1>1, FolderInvariant, PTL

(* A checkpoint changes only what a user put at a path (commitCurrentFiles *)
(* and capture, which reads without the files lock).                       *)
THEOREM CheckpointsAlwaysMine == Spec => []CheckpointsAreMine
<1>1. IInv => CheckpointsAreMine  BY DEF IInv, RepoI
<1>. QED  BY <1>1, FolderInvariant, PTL

(* What a user last put at a path is there, or in the branch's history:    *)
(* an update overwrites only what its expected commit holds (publish,      *)
(* applyInOrder, recoverIncoming).                                         *)
THEOREM SavesNeverLost == Spec => []NoSaveLost
<1>1. IInv => NoSaveLost  BY DEF IInv, RepoI
<1>. QED  BY <1>1, FolderInvariant, PTL

(* While nothing fails, dies or closes, a folder at rest is committed      *)
(* (requestAutomaticCommit, runAutomaticCommits): the worker misses no     *)
(* request.                                                                *)
THEOREM RestIsCommitted == Spec => []EverySaveCommitted
<1>1. IInv => EverySaveCommitted
  <2>. SUFFICES ASSUME IInv, spent.faults = 0,
                       \A t \in Tabs : /\ tab[t].save.pc = "idle"
                                       /\ \A k \in Jobs : job[t][k].pc = "idle"
                PROVE  files = Tree(branch)
    BY DEF EverySaveCommitted
  <2>1. QuietTabs /\ QuietFiles  BY DEF IInv, QuietI
  <2>2. ~Busy  BY DEF Busy, Capturing, Publishing
  <2>3. \A p \in Paths : ~Pending(p)  BY <2>1 DEF QuietTabs, Pending, Jobs
  <2>4. \A p \in Paths : files[p] = Tree(branch)[p]  BY <2>1, <2>2, <2>3 DEF QuietFiles
  <2>5. files \in Trees /\ commits[branch] \in CommitType
    BY DEF IInv, RepoI, RepoTypes
  <2>6. Tree(branch) \in Trees  BY <2>5 DEF CommitType, Tree
  <2>. QED  BY <2>4, <2>5, <2>6 DEF Trees
<1>. QED  BY <1>1, FolderInvariant, PTL
=============================================================================
