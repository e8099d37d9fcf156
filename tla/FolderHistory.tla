--------------------------- MODULE FolderHistory ---------------------------
(***************************************************************************)
(* The browser folder and its Git history: several tabs over one private   *)
(* file system (packages/folder/src/git/history.ts, opfs-git.ts,           *)
(* browser-backend.ts, opfs-store.ts, storage.ts).                         *)
(*                                                                         *)
(* A tab saves files, checkpoints the folder automatically and on request, *)
(* fetches, pushes, and publishes incoming commits.  Checkpoints and       *)
(* updates hold the Git Web Lock, saves and publications the files Web     *)
(* Lock; a tab that dies drops both wherever it stood.  A publication is   *)
(* recorded first and moves the branch last, so that a person may later    *)
(* ask to recover it.                                                      *)
(*                                                                         *)
(* A file is a content number, a commit is an index into `commits`.        *)
(* Directories, ignored files, Git attributes and the refs that pin the    *)
(* two commits of an update are left out.                                  *)
(***************************************************************************)
EXTENDS Integers, Sequences, FiniteSets

CONSTANTS Tabs, Paths, Nobody,
          MaxSaves,    \* bound: saves of all tabs
          MaxRequests, \* bound: explicit Git requests of all tabs
          MaxFaults    \* bound: tabs that close or die, and operations that fail

ASSUME FolderAssumption ==
    /\ IsFiniteSet(Tabs)
    /\ MaxSaves \in Nat /\ MaxRequests \in Nat /\ MaxFaults \in Nat
    /\ Nobody \notin Tabs \X {"auto", "ask", "save"}

VARIABLES
    files,    \* files[p]: the content of p
    index,    \* the commit whose tree the index holds
    branch, tracking, \* refs/heads/main, refs/remotes/origin/main
    remote,   \* the remote's branch
    record,   \* the incoming-update record
    commits,  \* every commit object
    gitLock, filesLock,
    tab,      \* tab[t]: a handle
    job,      \* job[t][k]: its automatic worker and its explicit request
    mine,     \* ghost: what a user last put at a path
    written,  \* ghost: all a user ever put there
    spent     \* what the bounds have left

vars == <<files, index, branch, tracking, remote, record, commits,
          gitLock, filesLock, tab, job, mine, written, spent>>

users == <<mine, written>>
repository == <<index, branch, tracking, remote, record, commits>>
refs == <<tracking, remote>>
locks == <<gitLock, filesLock>>

Absent == 0
Empty == -1  \* a new file whose stream has not closed
Jobs == {"auto", "ask"}

(* Contents: 1 is where every path starts, 2 is another device's, each     *)
(* save and each line merge brings a new one.                              *)
Contents == Nat \cup {Empty}
Trees == [Paths -> Contents]
Fresh == 3 + spent.saves + spent.merges

Tree(c) == commits[c].tree
Past(c) == commits[c].past  \* c and its ancestors

NoRecord == [state |-> "none", expected |-> 0, next |-> 0]
Recorded(expected, next) == [state |-> "recorded", expected |-> expected, next |-> next]
Unadmitted == [NoRecord EXCEPT !.state = "empty"]

NoJob == [pc |-> "idle", kind |-> "none", expected |-> 0, next |-> 0,
          seen |-> [p \in {} |-> Absent], todo |-> {}, applied |-> FALSE]
NoSave == [pc |-> "idle", path |-> Nobody, content |-> Absent]
NewTab == [open |-> "open", requested |-> 0, answered |-> 0, save |-> NoSave]

(* What another device may push: some files changed, others removed or     *)
(* left alone.                                                             *)
Edited ==
    {[p \in Paths |-> IF p \in changed THEN 2 ELSE IF p \in removed THEN Absent ELSE 1] :
        changed \in (SUBSET Paths) \ {{}}, removed \in SUBSET Paths}

Root == [tree |-> [p \in Paths |-> 1], past |-> {1}, by |-> "remote", from |-> 0]

(* A clean folder at the remote's first commit; another device may have    *)
(* pushed a second one, fetched already or not.  Some of the tabs have it   *)
(* open; each beyond the first takes one save off the bound.               *)
Init ==
    /\ commits \in {<<Root>>} \cup
         {<<Root, [tree |-> tree, past |-> {1, 2}, by |-> "remote", from |-> 1]>> :
            tree \in Edited}
    /\ files = Root.tree
    /\ index = 1 /\ branch = 1 /\ remote = Len(commits) /\ tracking \in DOMAIN commits
    /\ record = NoRecord
    /\ gitLock = Nobody /\ filesLock = Nobody
    /\ \E opened \in (SUBSET Tabs) \ {{}} :
        /\ tab = [t \in Tabs |-> IF t \in opened THEN NewTab ELSE [NewTab EXCEPT !.open = "never"]]
        /\ spent = [saves |-> Cardinality(opened) - 1, merges |-> 0, requests |-> 0,
                    faults |-> 0]
    /\ job = [t \in Tabs |-> [k \in Jobs |-> NoJob]]
    /\ mine = files /\ written = [p \in Paths |-> {}]

(* An operation that may fail: it worked, or a failure was spent on it.    *)
Works == UNCHANGED spent
FailsNow == spent.faults < MaxFaults /\ spent' = [spent EXCEPT !.faults = @ + 1]

AddCommit(tree, parents, by) ==
    Append(commits, [tree |-> tree, by |-> by,
                     past |-> (UNION {Past(c) : c \in parents}) \cup {Len(commits) + 1},
                     from |-> CHOOSE c \in parents : c = branch \/ branch \notin parents])

Put(p, c) == [files EXCEPT ![p] = c]
Wrote(p, c) ==
    /\ mine' = [mine EXCEPT ![p] = c]
    /\ written' = [written EXCEPT ![p] = @ \cup {c}]

(***************************************************************************)
(* Saves (withPublication, applyChanges, writeFileAt, removeFileAt)        *)
(***************************************************************************)

(* A save that passed its checks holds the files lock; a file it creates   *)
(* is there, empty, until its stream closes.                               *)
SaveBegins(t, p) ==
    /\ tab[t].open = "open" /\ tab[t].save.pc = "idle"
    /\ filesLock = Nobody /\ spent.saves < MaxSaves
    /\ \E c \in {Fresh, Absent} \ (IF files[p] = Absent THEN {Absent} ELSE {}) :
        tab' = [tab EXCEPT ![t].save = [pc |-> "writing", path |-> p, content |-> c]]
    /\ filesLock' = <<t, "save">>
    /\ spent' = [spent EXCEPT !.saves = @ + 1]
    /\ IF files[p] = Absent
         THEN files' = Put(p, Empty) /\ Wrote(p, Empty)
         ELSE UNCHANGED <<files, users>>
    /\ UNCHANGED <<repository, gitLock, job>>

(* The step lands, fails and leaves nothing, or ends unconfirmed: then it  *)
(* has landed or not, and a new file may be left empty.  An unconfirmed    *)
(* step counts as one that may have changed the path (mayHaveChanged).     *)
SaveEnds(t) ==
    LET s == tab[t].save
        created == files[s.path] = Empty
        Leaves(c) == files' = Put(s.path, c) /\ Wrote(s.path, c)
        Then(pc) == tab' = [tab EXCEPT ![t].save.pc = pc]
    IN  /\ s.pc = "writing"
        /\ \/ Leaves(s.content) /\ Then("landed") /\ Works
           \/ /\ FailsNow /\ Then("idle")
              /\ IF created THEN Leaves(Absent) ELSE UNCHANGED <<files, users>>
           \/ /\ FailsNow /\ Then("landed") /\ s.content # Absent
              /\ Leaves(s.content) \/ UNCHANGED <<files, users>>
        /\ filesLock' = Nobody
        /\ UNCHANGED <<repository, gitLock, job>>

(* apply() resolved: requestAutomaticCommit claims the worker.             *)
SaveReported(t) ==
    /\ tab[t].save.pc = "landed"
    /\ IF tab[t].open = "open"
         THEN /\ tab' = [tab EXCEPT ![t].requested = @ + 1, ![t].save = NoSave]
              /\ job' = IF job[t]["auto"].pc = "idle"
                          THEN [job EXCEPT ![t]["auto"] =
                                  [NoJob EXCEPT !.pc = "waiting", !.kind = "commit"]]
                          ELSE job
         ELSE tab' = [tab EXCEPT ![t].save = NoSave] /\ UNCHANGED job
    /\ UNCHANGED <<files, repository, locks, users, spent>>

(***************************************************************************)
(* Requests, the Git lock, and the automatic worker                        *)
(***************************************************************************)

Set(t, k, j) == job' = [job EXCEPT ![t][k] = j]
(* A checkpoint that ran, or had nothing to do: the worker goes on.        *)
Done(k) == IF k = "auto" THEN [NoJob EXCEPT !.pc = "settling"] ELSE NoJob
Holds(t, k) == gitLock = <<t, k>>
Released == gitLock' = Nobody

Ask(t, kind) ==
    /\ tab[t].open = "open" /\ job[t]["ask"].pc = "idle"
    /\ spent.requests < MaxRequests
    /\ Set(t, "ask", [NoJob EXCEPT !.pc = "waiting", !.kind = kind])
    /\ spent' = [spent EXCEPT !.requests = @ + 1]
    /\ UNCHANGED <<files, repository, locks, tab, users>>

(* Mutant: work goes on under a pending update.                            *)
PendingIgnored == TRUE

(* Whether index and branch work may go on (pendingIncoming, blocked,      *)
(* settled).                                                               *)
Settled == record.state = "none"

(* Closing refuses a request that still waits.                             *)
RefusedByClose(t, k) ==
    /\ job[t][k].pc = "waiting" /\ tab[t].open = "closing"
    /\ Set(t, k, NoJob)
    /\ UNCHANGED <<files, repository, locks, tab, users, spent>>

Enters(t, k, kinds) ==
    /\ job[t][k].pc = "waiting" /\ job[t][k].kind \in kinds
    /\ tab[t].open = "open" /\ gitLock = Nobody

Answered(t) == [tab EXCEPT ![t].answered = tab[t].requested]

(* commitCurrentFiles, up to the capture: requests so far are answered, an *)
(* automatic checkpoint with none left retires, the parent is pinned.      *)
EnterCommit(t, k) ==
    /\ Enters(t, k, {"commit"})
    /\ tab' = Answered(t)
    /\ IF \/ k = "auto" /\ tab[t].answered = tab[t].requested
          \/ ~Settled
         THEN Set(t, k, Done(k)) /\ UNCHANGED gitLock
         ELSE /\ gitLock' = <<t, k>>
              /\ Set(t, k, [job[t][k] EXCEPT !.pc = "capture", !.expected = branch])
    /\ UNCHANGED <<files, repository, filesLock, users, spent>>

(* Mutant: one checkpoint, then the worker retires.                        *)
SettlesOnce(t) ==
    /\ job[t]["auto"].pc = "settling"
    /\ Set(t, "auto", NoJob)
    /\ UNCHANGED <<files, repository, locks, tab, users, spent>>

(* settleCommit, then the loop test and the retirement of the worker.      *)
Settles(t) ==
    /\ job[t]["auto"].pc = "settling"
    /\ Set(t, "auto", IF tab[t].open = "open" /\ tab[t].answered < tab[t].requested
                   THEN [NoJob EXCEPT !.pc = "waiting", !.kind = "commit"]
                   ELSE NoJob)
    /\ UNCHANGED <<files, repository, locks, tab, users, spent>>

(* capture() reads file after file, without the files lock.                *)
CaptureFile(t, k, p) ==
    LET j == job[t][k]
    IN  /\ j.pc = "capture" /\ p \notin DOMAIN j.seen
        /\ Set(t, k, [j EXCEPT !.seen = [q \in DOMAIN j.seen \cup {p} |->
                                            IF q = p THEN files[p] ELSE j.seen[q]]])
        /\ UNCHANGED <<files, repository, locks, tab, users, spent>>

CaptureFails(t, k) ==
    /\ job[t][k].pc = "capture" /\ FailsNow
    /\ Set(t, k, Done(k)) /\ Released
    /\ UNCHANGED <<files, repository, filesLock, tab, users>>

Captured(t, k, kinds) ==
    /\ job[t][k].pc = "capture" /\ job[t][k].kind \in kinds
    /\ DOMAIN job[t][k].seen = Paths

(* The commit is built and the branch moved by compare-and-swap, which     *)
(* cannot lose inside the Git lock.  A failed write of the ref leaves the  *)
(* old commit, or either one.                                              *)
CommitBuilt(t, k) ==
    LET j == job[t][k]
        oid == Len(commits) + 1
    IN  /\ Captured(t, k, {"commit"})
        /\ \/ /\ j.seen = Tree(j.expected) /\ Works
              /\ Set(t, k, [j EXCEPT !.pc = "index", !.next = j.expected])
              /\ UNCHANGED <<branch, commits, gitLock>>
           \/ /\ j.seen # Tree(j.expected) /\ Settled /\ branch = j.expected /\ Works
              /\ commits' = AddCommit(j.seen, {j.expected}, "checkpoint")
              /\ branch' = oid
              /\ Set(t, k, [j EXCEPT !.pc = "index", !.next = oid])
              /\ UNCHANGED gitLock
           \/ /\ j.seen # Tree(j.expected) /\ FailsNow
              /\ \/ UNCHANGED <<branch, commits>>
                 \/ /\ commits' = AddCommit(j.seen, {j.expected}, "checkpoint")
                    /\ branch' = oid
              /\ Set(t, k, Done(k)) /\ Released
        /\ UNCHANGED <<files, index, refs, record, filesLock, tab, users>>

(* reconcileIndex; a failure is only a warning.                            *)
IndexReset(t, k) ==
    /\ job[t][k].pc = "index" /\ job[t][k].kind = "commit"
    /\ \/ index' = job[t][k].next /\ Works
       \/ UNCHANGED index /\ FailsNow
    /\ Set(t, k, Done(k)) /\ Released
    /\ UNCHANGED <<files, branch, refs, record, commits, filesLock, tab, users>>

(***************************************************************************)
(* Fetch and push, outside the Git lock                                    *)
(***************************************************************************)

Fetch(t) ==
    /\ job[t]["ask"].pc = "waiting" /\ job[t]["ask"].kind = "fetch"
    /\ \/ tracking' = remote /\ Works
       \/ UNCHANGED tracking /\ FailsNow
    /\ Set(t, "ask", NoJob)
    /\ UNCHANGED <<files, index, branch, remote, record, commits, locks, tab, users>>

(* A push pins the commit it sends before the transport starts.            *)
PushPins(t) ==
    /\ job[t]["ask"].pc = "waiting" /\ job[t]["ask"].kind = "push"
    /\ tab[t].open = "open"
    /\ Set(t, "ask", [job[t]["ask"] EXCEPT !.pc = "sending", !.next = branch])
    /\ UNCHANGED <<files, repository, locks, tab, users, spent>>

(* The remote takes a fast-forward only; a lost answer leaves the tracking *)
(* ref behind.                                                             *)
PushEnds(t) ==
    LET oid == job[t]["ask"].next
        taken == remote \in Past(oid)
    IN  /\ job[t]["ask"].pc = "sending"
        /\ \/ taken /\ remote' = oid /\ tracking' = oid /\ Works
           \/ /\ ~taken \/ tab[t].open = "closing" \* rejected, aborted
              /\ UNCHANGED refs /\ Works
           \/ /\ FailsNow /\ UNCHANGED tracking
              /\ \/ UNCHANGED remote
                 \/ taken /\ remote' = oid
        /\ Set(t, "ask", NoJob)
        /\ UNCHANGED <<files, index, branch, record, commits, locks, tab, users>>

(***************************************************************************)
(* Incoming updates: pull, merge, and their publication                    *)
(***************************************************************************)

(* pinIncoming and the relations that end the request at once.             *)
EnterIncoming(t) ==
    LET j == job[t]["ask"]
    IN  /\ Enters(t, "ask", {"pull", "merge"})
        /\ IF \/ ~Settled
              \/ tracking \in Past(branch)                             \* upToDate, ahead
              \/ j.kind = "pull" /\ branch \notin Past(tracking)       \* Diverged
             THEN Set(t, "ask", NoJob) /\ UNCHANGED gitLock
             ELSE /\ Set(t, "ask", [j EXCEPT !.pc = "capture", !.expected = branch,
                                             !.next = tracking])
                  /\ gitLock' = <<t, "ask">>
        /\ UNCHANGED <<files, repository, filesLock, tab, users, spent>>

(* The best common ancestors of two commits.                               *)
Bases(a, b) ==
    LET common == Past(a) \cap Past(b)
    IN  {c \in common : \A d \in common : c \in Past(d) => d = c}

Competing(base, ours, theirs) ==
    {p \in Paths : Cardinality({Tree(base)[p], Tree(ours)[p], Tree(theirs)[p]}) = 3}

(* Three-way merge of the paths only one side changed; `text` is what the  *)
(* line, key or row merge makes of the others.                             *)
Merged(base, ours, theirs, text) ==
    [p \in Paths |->
        IF p \in Competing(base, ours, theirs) THEN text
        ELSE IF Tree(ours)[p] = Tree(base)[p] THEN Tree(theirs)[p] ELSE Tree(ours)[p]]

(* cleanFolder, then the commit to publish: the fetched one, or a merge of *)
(* two parents.  A conflict writes nothing.                                *)
IncomingPrepared(t) ==
    LET j == job[t]["ask"]
        clean == j.seen = Tree(j.expected) /\ Tree(index) = Tree(j.expected)
        Refused == /\ Set(t, "ask", NoJob) /\ Released /\ UNCHANGED <<commits, spent>>
    IN  /\ Captured(t, "ask", {"pull", "merge"})
        /\ \/ ~clean /\ Refused
           \/ /\ clean /\ j.expected \in Past(j.next)
              /\ Set(t, "ask", [j EXCEPT !.pc = "publish"])
              /\ UNCHANGED <<gitLock, commits, spent>>
           \/ /\ clean /\ j.expected \notin Past(j.next)
              /\ \E base \in Bases(j.expected, j.next) :
                    LET rivals == Competing(base, j.expected, j.next)
                        textual == \A p \in rivals :
                            Absent \notin {Tree(j.expected)[p], Tree(j.next)[p]}
                    IN  \/ /\ rivals # {} \/ Cardinality(Bases(j.expected, j.next)) # 1
                           /\ Refused \* conflicted, or an unsupported history
                        \/ /\ Cardinality(Bases(j.expected, j.next)) = 1 /\ textual
                           /\ commits' = AddCommit(Merged(base, j.expected, j.next, Fresh),
                                                   {j.expected, j.next}, "merge")
                           /\ spent' = [spent EXCEPT !.merges = @ + (IF rivals = {} THEN 0 ELSE 1)]
                           /\ Set(t, "ask", [j EXCEPT !.pc = "publish", !.next = Len(commits) + 1])
                           /\ UNCHANGED gitLock
        /\ UNCHANGED <<files, index, branch, refs, record, filesLock, tab, users>>

Changed(j) == {p \in Paths : Tree(j.expected)[p] # Tree(j.next)[p]}

(* Mutant: the clean check is trusted.                                     *)
AdmittedUnread(j) == record.state = "none" /\ branch = j.expected

(* Whether the folder is still what the clean check found.                 *)
Admitted(j) ==
    /\ record.state = "none" /\ files = j.seen
    /\ Tree(index) = Tree(j.expected) /\ branch = j.expected

Ends(t) == Set(t, "ask", NoJob) /\ Released /\ filesLock' = Nobody

(* publish(): admission under the files lock, then the record.  A record   *)
(* whose stream did not close may be there whole, empty, or not at all.    *)
Admit(t) ==
    LET j == job[t]["ask"]
        recorded == Recorded(j.expected, j.next)
    IN  /\ j.pc = "publish" /\ filesLock = Nobody
        /\ \/ /\ ~Admitted(j) /\ Works
              /\ Set(t, "ask", NoJob) /\ Released /\ UNCHANGED <<record, filesLock>>
           \/ /\ Admitted(j) /\ Works /\ record' = recorded
              /\ Set(t, "ask", [j EXCEPT !.pc = "apply", !.todo = Changed(j)])
              /\ filesLock' = <<t, "ask">> /\ UNCHANGED gitLock
           \/ /\ Admitted(j) /\ FailsNow /\ record' \in {recorded, Unadmitted, NoRecord}
              /\ Set(t, "ask", NoJob) /\ Released /\ UNCHANGED filesLock
        /\ UNCHANGED <<files, index, branch, refs, commits, tab, users>>

(* applyInOrder: removals, then writes.                                    *)
NextSteps(j) ==
    LET removals == {p \in j.todo : Tree(j.next)[p] = Absent}
    IN  IF removals = {} THEN j.todo ELSE removals

ApplyStep(t, p) ==
    LET j == job[t]["ask"]
    IN  /\ j.pc = "apply" /\ p \in NextSteps(j)
        /\ files' = Put(p, Tree(j.next)[p]) /\ Works
        /\ Set(t, "ask", [j EXCEPT !.todo = @ \ {p}, !.applied = TRUE])
        /\ UNCHANGED <<repository, locks, tab, users>>

(* Mutant: any failed publication does.                                    *)
MayForgetSteps(j) == j.kind # "recover"

(* Whether a failed step may take the record away: only a publication that *)
(* changed no file.                                                        *)
MayForget(j) == j.kind # "recover" /\ ~j.applied

(* A step that failed and left its path as it was.  clearRecord itself may *)
(* fail; the record then stays.                                            *)
ApplyFails(t) ==
    LET j == job[t]["ask"]
    IN  /\ j.pc = "apply" /\ j.todo # {} /\ FailsNow /\ Ends(t)
        /\ record' \in {record} \cup (IF MayForget(j) THEN {NoRecord} ELSE {})
        /\ UNCHANGED <<files, index, branch, refs, commits, tab, users>>

(* A write whose stream failed to close: the file is there or not, or, if  *)
(* the step created it, empty.                                             *)
ApplyUnconfirmed(t, p) ==
    LET j == job[t]["ask"]
    IN  /\ j.pc = "apply" /\ p \in NextSteps(j) /\ Tree(j.next)[p] # Absent /\ FailsNow
        /\ files' \in {Put(p, Tree(j.next)[p]), files}
                      \cup (IF files[p] = Absent THEN {Put(p, Empty)} ELSE {})
        /\ Ends(t)
        /\ UNCHANGED <<repository, tab, users>>

WriteIndex(t) ==
    LET j == job[t]["ask"]
    IN  /\ j.pc = "apply" /\ j.todo = {}
        /\ \/ /\ index' = j.next /\ Works
              /\ Set(t, "ask", [j EXCEPT !.pc = "branch"]) /\ UNCHANGED locks
           \/ FailsNow /\ index' \in {index, j.next} /\ Ends(t)
        /\ UNCHANGED <<files, branch, refs, record, commits, tab, users>>

MoveBranch(t) ==
    LET j == job[t]["ask"]
    IN  /\ j.pc = "branch"
        /\ \/ /\ branch' = j.next /\ Works
              /\ Set(t, "ask", [j EXCEPT !.pc = "readback"]) /\ UNCHANGED locks
           \/ FailsNow /\ branch' \in {branch, j.next} /\ Ends(t)
        /\ UNCHANGED <<files, index, refs, record, commits, tab, users>>

(* unfinished(), then clearRecord; the update is published either way.     *)
ClearRecord(t) ==
    LET j == job[t]["ask"]
        left == {p \in Changed(j) : files[p] # Tree(j.next)[p]}
    IN  /\ j.pc = "readback"
        /\ \/ record' = NoRecord /\ left = {} /\ Tree(index) = Tree(j.next) /\ Works
           \/ UNCHANGED record /\ FailsNow
        /\ Ends(t)
        /\ UNCHANGED <<files, index, branch, refs, commits, tab, users>>

(***************************************************************************)
(* Recovery                                                                *)
(***************************************************************************)

EnterRecover(t) ==
    /\ Enters(t, "ask", {"recover"})
    /\ gitLock' = <<t, "ask">>
    /\ Set(t, "ask", [job[t]["ask"] EXCEPT !.pc = "recover"])
    /\ UNCHANGED <<files, repository, filesLock, tab, users, spent>>

(* assess(): paths that hold neither the update's before nor its after     *)
(* state.  A path to remove that is gone is done.                          *)
Third(j) ==
    {p \in Changed(j) : files[p] \notin {Tree(j.expected)[p], Tree(j.next)[p]}
                        /\ ~(Tree(j.next)[p] = Absent /\ files[p] = Absent)}

Recover(t) ==
    LET j == [job[t]["ask"] EXCEPT !.expected = record.expected, !.next = record.next]
        Refuse == Set(t, "ask", NoJob) /\ Released /\ UNCHANGED <<record, filesLock>>
    IN  /\ j.pc = "recover" /\ filesLock = Nobody
        /\ \/ record.state = "none" /\ Works /\ Refuse
           \/ /\ \/ record.state = "empty"
                 \/ record.state = "recorded" /\ branch = j.next
              /\ record' = NoRecord /\ Works
              /\ Set(t, "ask", NoJob) /\ Released /\ UNCHANGED filesLock
           \/ /\ record.state = "recorded" /\ branch # j.next /\ Works
              /\ \/ branch # j.expected
                 \/ Third(j) # {}
                 \/ Tree(index) \notin {Tree(j.expected), Tree(j.next)}
              /\ Refuse
           \/ /\ record.state = "recorded" /\ branch = j.expected /\ Third(j) = {}
              /\ Tree(index) \in {Tree(j.expected), Tree(j.next)} /\ Works
              /\ Set(t, "ask", [j EXCEPT !.pc = "apply",
                    !.todo = {p \in Changed(j) : files[p] # Tree(j.next)[p]}])
              /\ filesLock' = <<t, "ask">> /\ UNCHANGED <<record, gitLock>>
        /\ UNCHANGED <<files, index, branch, refs, commits, tab, users>>

(***************************************************************************)
(* Closing, and a tab that dies                                            *)
(***************************************************************************)

BeginClose(t) ==
    /\ tab[t].open = "open" /\ FailsNow
    /\ tab' = [tab EXCEPT ![t].open = "closing"]
    /\ UNCHANGED <<files, repository, locks, job, users>>

(* close() resolved, and the folder is opened again.                       *)
Reopen(t) ==
    /\ tab[t].open = "closing" /\ tab[t].save.pc = "idle"
    /\ \A k \in Jobs : job[t][k].pc = "idle"
    /\ tab' = [tab EXCEPT ![t] = NewTab]
    /\ UNCHANGED <<files, repository, locks, job, users, spent>>

Dropped(lock, t) == IF lock # Nobody /\ lock[1] = t THEN Nobody ELSE lock

(* The browser ends a tab: its locks are free, its memory is gone, and it  *)
(* may be opened again.  A file it was creating stays as it is.            *)
Crash(t) ==
    /\ FailsNow
    /\ tab[t].save.pc # "idle" \/ \E k \in Jobs : job[t][k].pc # "idle"
    /\ tab' = [tab EXCEPT ![t] = NewTab]
    /\ job' = [job EXCEPT ![t] = [k \in Jobs |-> NoJob]]
    /\ gitLock' = Dropped(gitLock, t) /\ filesLock' = Dropped(filesLock, t)
    /\ UNCHANGED <<files, repository, users>>

Save(t) == (\E p \in Paths : SaveBegins(t, p)) \/ SaveEnds(t) \/ SaveReported(t)

Commit(t, k) ==
    \/ EnterCommit(t, k) \/ CommitBuilt(t, k) \/ IndexReset(t, k)
    \/ CaptureFails(t, k) \/ RefusedByClose(t, k)
    \/ \E p \in Paths : CaptureFile(t, k, p)

Transfer(t) == Fetch(t) \/ PushPins(t) \/ PushEnds(t)

Publish(t) ==
    \/ EnterIncoming(t) \/ IncomingPrepared(t) \/ Admit(t) \/ EnterRecover(t) \/ Recover(t)
    \/ \E p \in Paths : ApplyStep(t, p) \/ ApplyUnconfirmed(t, p)
    \/ ApplyFails(t) \/ WriteIndex(t) \/ MoveBranch(t) \/ ClearRecord(t)

Kinds == {"commit", "fetch", "push", "pull", "merge", "recover"}

Next ==
    \E t \in Tabs :
        \/ Save(t) \/ Settles(t) \/ Transfer(t) \/ Publish(t)
        \/ BeginClose(t) \/ Reopen(t) \/ Crash(t)
        \/ \E k \in Jobs : Commit(t, k)
        \/ \E kind \in Kinds : Ask(t, kind)

Spec == Init /\ [][Next]_vars

(***************************************************************************)
(* Properties                                                              *)
(***************************************************************************)

TypeOK ==
    /\ files \in Trees /\ index \in DOMAIN commits /\ branch \in DOMAIN commits
    /\ tracking \in DOMAIN commits /\ remote \in DOMAIN commits
    /\ record \in [state : {"none", "empty", "recorded"}, expected : 0..Len(commits),
                   next : 0..Len(commits)]
    /\ \A c \in DOMAIN commits : Tree(c) \in Trees /\ Past(c) \subseteq 1..c
    /\ gitLock \in {Nobody} \cup (Tabs \X Jobs)
    /\ filesLock \in {Nobody} \cup (Tabs \X {"ask", "save"})
    /\ \A t \in Tabs : tab[t].answered <= tab[t].requested
    /\ \A t \in Tabs, k \in Jobs :
        job[t][k].pc \in {"capture", "index", "publish", "apply", "branch", "readback", "recover"}
            => Holds(t, k)

(* While no update is recorded and nobody holds the Git lock, whatever a   *)
(* file holds beside the branch's version is what a user last put there:   *)
(* no failed, abandoned or recovered publication leaves its own bytes      *)
(* behind as if they were local work.                                      *)
DirtyIsMine ==
    /\ TypeOK
    /\ record.state = "none" /\ gitLock = Nobody
        => \A p \in Paths : files[p] # Tree(branch)[p] => files[p] = mine[p]

(* A checkpoint records local work only: what it changes against its       *)
(* parent is something a user put at that path, never half of an update.   *)
CheckpointsAreMine ==
    \A c \in DOMAIN commits : commits[c].by = "checkpoint" =>
        \A p \in Paths : Tree(c)[p] # Tree(commits[c].from)[p] =>
            Tree(c)[p] \in written[p]

(* What a user last put at a path is still there, or a commit the branch   *)
(* reaches holds it: no update, recovery or crash writes over a save that  *)
(* history does not have.                                                  *)
NoSaveLost ==
    \A p \in Paths : files[p] = mine[p] \/ \E c \in Past(branch) : Tree(c)[p] = mine[p]

(* While nothing fails, dies or closes, a folder at rest is committed,     *)
(* without another save asking for it: a request that arrives while a      *)
(* checkpoint runs, or just as the worker retires, is not missed.          *)
EverySaveCommitted ==
    /\ spent.faults = 0
    /\ \A t \in Tabs : tab[t].save.pc = "idle" /\ \A k \in Jobs : job[t][k].pc = "idle"
    => files = Tree(branch)

=============================================================================
