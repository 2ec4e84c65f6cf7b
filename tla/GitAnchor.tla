----------------------------- MODULE GitAnchor -----------------------------
(***************************************************************************)
(* The public half of an anchor: workers write one manifest per run into a *)
(* clone, commit it, push the branch and ask the remote whether the commit *)
(* is reachable, before the run is marked ANCHORED.  One action is one git *)
(* command (or one file operation) of GitAnchorRepo.  A worker may fail or *)
(* die before any of them, and an answer may be lost after a push landed.  *)
(*                                                                         *)
(* The branch only grows by fast-forward pushes, so a commit is its own    *)
(* ancestry: the sequence of manifest sets its commits added.              *)
(***************************************************************************)
EXTENDS Naturals, Sequences, FiniteSets, SequencesExt

CONSTANTS
    Manifests,      \* one manifest per run (its path and its fixed bytes)
    NoManifest,
    Workers,        \* processes that execute the anchor task
    SharedClone,    \* do all workers use one ANCHOR_GIT_DIR
    PushFaults      \* bound on failed commands, deaths and lost answers

ASSUME GitAssumption == SharedClone \in BOOLEAN /\ PushFaults \in Nat

VARIABLES
    remote,     \* the branch as the remote has it; <<>> while it does not exist
    clone,      \* the local repositories
    task,       \* what each worker is doing
    published,  \* the commit stored with a run marked ANCHORED; <<>> before
    pushFaults

gitVars == <<remote, clone, task, published, pushFaults>>

Clones == IF SharedClone THEN {Workers} ELSE {{w} : w \in Workers}
CloneOf(w) == CHOOSE c \in Clones : w \in c

Idle == [at |-> "idle", file |-> NoManifest, fresh |-> FALSE, commit |-> <<>>]

Tree(commit) == UNION Range(commit)
Reachable(commit, head) == commit # <<>> /\ IsPrefix(commit, head)

GitInit ==
    /\ remote = <<>>
    /\ clone = [c \in Clones |->
                  [head |-> <<>>, fetched |-> <<>>, staged |-> {}, files |-> {}]]
    /\ task = [w \in Workers |-> Idle]
    /\ published = [m \in Manifests |-> <<>>]
    /\ pushFaults = 0

-----------------------------------------------------------------------------
(* One worker's steps.                                                     *)

At(w, step) == task[w].at = step
Goto(w, step) == task' = [task EXCEPT ![w].at = step]
Repo(w) == clone[CloneOf(w)]

\* The run lock: no two workers anchor one run, but nothing locks the clone.
Take(w, m) ==
    /\ At(w, "idle") /\ published[m] = <<>>
    /\ \A v \in Workers : task[v].file # m
    /\ task' = [task EXCEPT ![w] = [Idle EXCEPT !.at = "list", !.file = m]]
    /\ UNCHANGED <<remote, clone, published, pushFaults>>

\* git ls-remote: an absent branch leaves the work tree as it is.
ListRemote(w) ==
    /\ At(w, "list")
    /\ Goto(w, IF remote = <<>> THEN "write" ELSE "fetch")
    /\ UNCHANGED <<remote, clone, published, pushFaults>>

Fetch(w) ==
    /\ At(w, "fetch")
    /\ clone' = [clone EXCEPT ![CloneOf(w)].fetched = remote]
    /\ Goto(w, "checkout")
    /\ UNCHANGED <<remote, published, pushFaults>>

\* git checkout -f -B branch FETCH_HEAD: tracked and staged files follow the new
\* head, local commits are dropped from the branch, untracked files stay.
Checkout(w) ==
    LET r == Repo(w)
        untracked == r.files \ (Tree(r.head) \cup r.staged)
    IN  /\ At(w, "checkout")
        /\ clone' = [clone EXCEPT ![CloneOf(w)] =
                       [r EXCEPT !.head = r.fetched, !.staged = {},
                                 !.files = untracked \cup Tree(r.fetched)]]
        /\ Goto(w, "write")
        /\ UNCHANGED <<remote, published, pushFaults>>

\* A manifest already there is reused: nothing is added, committed or pushed.
WriteManifest(w) ==
    /\ At(w, "write")
    /\ IF task[w].file \in Repo(w).files
       THEN Goto(w, "log") /\ UNCHANGED clone
       ELSE /\ clone' = [clone EXCEPT ![CloneOf(w)].files = @ \cup {task[w].file}]
            /\ task' = [task EXCEPT ![w].at = "add", ![w].fresh = TRUE]
    /\ UNCHANGED <<remote, published, pushFaults>>

AddManifest(w) ==
    /\ At(w, "add") /\ task[w].file \in Repo(w).files
    /\ clone' = [clone EXCEPT ![CloneOf(w)].staged =
                   @ \cup ({task[w].file} \ Tree(Repo(w).head))]
    /\ Goto(w, "commit")
    /\ UNCHANGED <<remote, published, pushFaults>>

\* git commit takes the whole index of the clone.
Commit(w) ==
    /\ At(w, "commit") /\ Repo(w).staged # {}
    /\ clone' = [clone EXCEPT ![CloneOf(w)].head = Append(@, Repo(w).staged),
                              ![CloneOf(w)].staged = {}]
    /\ Goto(w, "parse")
    /\ UNCHANGED <<remote, published, pushFaults>>

\* git rev-parse HEAD, a command of its own.
ParseHead(w) ==
    /\ At(w, "parse")
    /\ task' = [task EXCEPT ![w].at = "push", ![w].commit = Repo(w).head]
    /\ UNCHANGED <<remote, clone, published, pushFaults>>

\* git push origin HEAD:branch, accepted as a fast-forward only.
Push(w) ==
    /\ At(w, "push") /\ IsPrefix(remote, Repo(w).head)
    /\ remote' = Repo(w).head
    /\ Goto(w, "reach")
    /\ UNCHANGED <<clone, published, pushFaults>>

\* The remote took the push, but the command timed out.
PushUnheard(w) ==
    /\ At(w, "push") /\ IsPrefix(remote, Repo(w).head) /\ pushFaults < PushFaults
    /\ remote' = Repo(w).head
    /\ task' = [task EXCEPT ![w] = Idle]
    /\ pushFaults' = pushFaults + 1
    /\ UNCHANGED <<clone, published>>

\* git log -n 1 -- path: the newest commit that added the manifest.
LogManifest(w) ==
    LET head == Repo(w).head
        adding == {i \in DOMAIN head : task[w].file \in head[i]}
    IN  /\ At(w, "log") /\ adding # {}
        /\ \E i \in adding :
              /\ \A j \in adding : j <= i
              /\ task' = [task EXCEPT ![w].at = "reach", ![w].commit = SubSeq(head, 1, i)]
        /\ UNCHANGED <<remote, clone, published, pushFaults>>

\* A mutant: the stored commit is not asked for on the remote.
AskNothing(w) ==
    /\ At(w, "reach")
    /\ Goto(w, "mark")
    /\ UNCHANGED <<remote, clone, published, pushFaults>>

\* is_reachable: the commit is an ancestor of the head the remote reports.
AskReachable(w) ==
    /\ At(w, "reach") /\ Reachable(task[w].commit, remote)
    /\ clone' = [clone EXCEPT ![CloneOf(w)].fetched = remote]
    /\ Goto(w, "mark")
    /\ UNCHANGED <<remote, published, pushFaults>>

MarkAnchored(w) ==
    /\ At(w, "mark")
    /\ published' = [published EXCEPT ![task[w].file] = task[w].commit]
    /\ task' = [task EXCEPT ![w] = Idle]
    /\ UNCHANGED <<remote, clone, pushFaults>>

\* What each command refuses by itself: a missing path, an empty index, a push that
\* is not a fast-forward, a manifest without a commit, a commit the remote lacks.
Refused(w) ==
    \/ At(w, "add") /\ task[w].file \notin Repo(w).files
    \/ At(w, "commit") /\ Repo(w).staged = {}
    \/ At(w, "push") /\ ~IsPrefix(remote, Repo(w).head)
    \/ At(w, "log") /\ task[w].file \notin Tree(Repo(w).head)
    \/ At(w, "reach") /\ ~Reachable(task[w].commit, remote)

\* The task ends with an error and the run stays COMMITTED; sweep queues it again.
Refuse(w) ==
    /\ Refused(w)
    /\ task' = [task EXCEPT ![w] = Idle]
    /\ UNCHANGED <<remote, clone, published, pushFaults>>

\* A command times out before it did anything, or the worker dies there.
GiveUp(w) ==
    /\ ~At(w, "idle") /\ pushFaults < PushFaults
    /\ task' = [task EXCEPT ![w] = Idle]
    /\ pushFaults' = pushFaults + 1
    /\ UNCHANGED <<remote, clone, published>>

Work(w) ==
    \/ \E m \in Manifests : Take(w, m)
    \/ ListRemote(w) \/ Fetch(w) \/ Checkout(w)
    \/ WriteManifest(w) \/ AddManifest(w) \/ Commit(w) \/ ParseHead(w)
    \/ Push(w) \/ PushUnheard(w) \/ LogManifest(w)
    \/ AskReachable(w) \/ MarkAnchored(w)
    \/ Refuse(w) \/ GiveUp(w)

GitNext == \E w \in Workers : Work(w)
GitSpec == GitInit /\ [][GitNext]_gitVars

-----------------------------------------------------------------------------
(* orchestration/anchor_stage.py: ANCHORED means the manifest naming the   *)
(* run is committed, pushed, and its commit is confirmed reachable: the    *)
(* commit stored with the run holds its manifest and is on the branch.     *)
PublishedManifest ==
    \A m \in Manifests : published[m] # <<>> =>
        m \in Tree(published[m]) /\ Reachable(published[m], remote)
=============================================================================
