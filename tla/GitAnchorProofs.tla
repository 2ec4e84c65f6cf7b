-------------------------- MODULE GitAnchorProofs ---------------------------
(* What TLAPS proves of GitAnchor when every worker has a clone of its own, *)
(* for any number of runs, workers, failures and deaths.                    *)
EXTENDS GitAnchor, SequenceTheorems, TLAPS

-----------------------------------------------------------------------------
(* Commits as sequences.                                                   *)

Commits == Seq(SUBSET Manifests)

LEMMA TreeIsItsSteps ==
  ASSUME NEW c \in Commits PROVE Tree(c) = {m \in Manifests : \E i \in 1 .. Len(c) : m \in c[i]}
<1>1. Range(c) = {c[i] : i \in 1 .. Len(c)}
  BY RangeEquality DEF Commits
<1>2. \A i \in 1 .. Len(c) : c[i] \subseteq Manifests
  BY DEF Commits
<1> QED BY <1>1, <1>2 DEF Tree

LEMMA TreeOfAppend ==
  ASSUME NEW c \in Commits, NEW added \in SUBSET Manifests
  PROVE  Append(c, added) \in Commits /\ Tree(Append(c, added)) = Tree(c) \cup added
<1>1. /\ Append(c, added) \in Commits /\ Len(c) \in Nat
      /\ Len(Append(c, added)) = Len(c) + 1
      /\ \A i \in 1 .. Len(c) : Append(c, added)[i] = c[i]
      /\ Append(c, added)[Len(c) + 1] = added
  BY AppendProperties, LenProperties DEF Commits
<1>2. 1 .. (Len(c) + 1) = (1 .. Len(c)) \cup {Len(c) + 1}
  BY <1>1
<1>3. Tree(c) = {m \in Manifests : \E i \in 1 .. Len(c) : m \in c[i]}
  BY TreeIsItsSteps
<1>4. Tree(Append(c, added)) = {m \in Manifests : \E i \in 1 .. (Len(c) + 1) : m \in Append(c, added)[i]}
  BY <1>1, TreeIsItsSteps
<1> QED BY <1>1, <1>2, <1>3, <1>4

LEMMA TreeOfStart ==
  ASSUME NEW c \in Commits, NEW i \in DOMAIN c, NEW m \in c[i]
  PROVE  SubSeq(c, 1, i) \in Commits /\ m \in Tree(SubSeq(c, 1, i))
<1>1. i \in 1 .. Len(c) /\ Len(c) \in Nat /\ m \in Manifests
  BY LenProperties DEF Commits
<1>2. \A k \in 1 .. i : c[k] \in SUBSET Manifests
  BY <1>1 DEF Commits
<1>3. /\ SubSeq(c, 1, i) \in Commits /\ Len(SubSeq(c, 1, i)) = i
      /\ \A k \in 1 .. i : SubSeq(c, 1, i)[k] = c[k]
  BY <1>1, <1>2, SubSeqProperties DEF Commits
<1>4. i \in 1 .. Len(SubSeq(c, 1, i)) /\ m \in SubSeq(c, 1, i)[i]
  BY <1>1, <1>3
<1>5. Tree(SubSeq(c, 1, i)) = {k \in Manifests : \E n \in 1 .. Len(SubSeq(c, 1, i)) : k \in SubSeq(c, 1, i)[n]}
  BY <1>3, TreeIsItsSteps
<1> QED BY <1>1, <1>3, <1>4, <1>5

\* A fast-forward keeps what was reachable.
LEMMA ReachableStays ==
  ASSUME NEW c \in Commits, NEW old \in Commits, NEW new \in Commits,
         Reachable(c, old), IsPrefix(old, new)
  PROVE  Reachable(c, new)
<1>1. Len(c) \in Nat /\ Len(old) \in Nat /\ Len(new) \in Nat /\ Len(c) <= Len(old) /\ Len(old) <= Len(new)
  BY LenProperties DEF Commits, Reachable, IsPrefix
<1>2. \A i \in 1 .. Len(c) : c[i] = old[i]
  <2>1. /\ \A i \in 1 .. Len(c) : SubSeq(c, 1, Len(c))[i] = c[i]
        /\ \A i \in 1 .. Len(c) : SubSeq(old, 1, Len(c))[i] = old[i]
    BY <1>1, SubSeqProperties DEF Commits
  <2> QED BY <2>1 DEF Reachable, IsPrefix
<1>3. \A i \in 1 .. Len(old) : old[i] = new[i]
  <2>1. /\ \A i \in 1 .. Len(old) : SubSeq(old, 1, Len(old))[i] = old[i]
        /\ \A i \in 1 .. Len(old) : SubSeq(new, 1, Len(old))[i] = new[i]
    BY <1>1, SubSeqProperties DEF Commits
  <2> QED BY <2>1 DEF IsPrefix
<1>4. SubSeq(c, 1, Len(c)) = SubSeq(new, 1, Len(c))
  <2>1. /\ SubSeq(c, 1, Len(c)) \in Commits /\ Len(SubSeq(c, 1, Len(c))) = Len(c)
        /\ \A i \in 1 .. Len(c) : SubSeq(c, 1, Len(c))[i] = c[i]
    BY <1>1, SubSeqProperties DEF Commits
  <2>2. /\ SubSeq(new, 1, Len(c)) \in Commits /\ Len(SubSeq(new, 1, Len(c))) = Len(c)
        /\ \A i \in 1 .. Len(c) : SubSeq(new, 1, Len(c))[i] = new[i]
    BY <1>1, SubSeqProperties DEF Commits
  <2> QED BY <1>1, <1>2, <1>3, <2>1, <2>2, SeqEqual DEF Commits
<1> QED BY <1>1, <1>4 DEF Reachable, IsPrefix

-----------------------------------------------------------------------------
(* The invariant.                                                          *)

Steps == {"idle", "list", "fetch", "checkout", "write", "add", "commit", "parse", "push",
          "log", "reach", "mark"}
Repos == [head : Commits, fetched : Commits, staged : SUBSET Manifests, files : SUBSET Manifests]
AllTasks == [at : Steps, file : Manifests \cup {NoManifest}, fresh : BOOLEAN, commit : Commits]
GitTasks == {t \in AllTasks : t.at # "idle" => t.file \in Manifests}

GitTypes ==
    /\ remote \in Commits
    /\ clone \in [Clones -> Repos]
    /\ task \in [Workers -> GitTasks]
    /\ published \in [Manifests -> Commits]

\* The manifest a worker is publishing has come as far as the worker has.
Carries(t, r, branch) ==
    /\ t.at = "commit" => t.file \in r.staged \cup Tree(r.head)
    /\ t.at = "parse" => t.file \in Tree(r.head)
    /\ t.at \in {"push", "reach", "mark"} => t.file \in Tree(t.commit)
    /\ t.at = "mark" => Reachable(t.commit, branch)

GitInv ==
    /\ GitTypes
    /\ \A w \in Workers : Carries(task[w], Repo(w), remote)
    /\ PublishedManifest

LEMMA OwnClones ==
  ASSUME SharedClone = FALSE
  PROVE  /\ \A w \in Workers : CloneOf(w) = {w} /\ {w} \in Clones
         /\ Clones = {{w} : w \in Workers}
<1>1. Clones = {{w} : w \in Workers}
  BY DEF Clones
<1>2. ASSUME NEW w \in Workers PROVE CloneOf(w) = {w} /\ {w} \in Clones
  BY <1>1 DEF CloneOf
<1> QED BY <1>1, <1>2

LEMMA IdleType == Idle \in GitTasks
<1>1. <<>> \in Commits
  BY EmptySeq DEF Commits
<1> QED BY <1>1 DEF Idle, GitTasks, AllTasks, Steps

LEMMA RepoType ==
  ASSUME SharedClone = FALSE, GitInv, NEW w \in Workers
  PROVE  /\ Repo(w) \in Repos
         /\ Tree(Repo(w).head) \subseteq Manifests /\ Tree(Repo(w).fetched) \subseteq Manifests
         /\ clone = [clone EXCEPT ![CloneOf(w)] = Repo(w)]
<1>1. CloneOf(w) \in Clones /\ clone \in [Clones -> Repos]
  BY OwnClones DEF GitInv, GitTypes
<1>2. Repo(w) \in Repos /\ clone = [clone EXCEPT ![CloneOf(w)] = Repo(w)]
  BY <1>1 DEF Repo
<1>3. Repo(w).head \in Commits /\ Repo(w).fetched \in Commits
  BY <1>2 DEF Repos
<1> QED BY <1>2, <1>3, TreeIsItsSteps

LEMMA GitInitially == SharedClone = FALSE /\ GitInit => GitInv
<1> SUFFICES ASSUME SharedClone = FALSE, GitInit PROVE GitInv
  OBVIOUS
<1>1. <<>> \in Commits
  BY EmptySeq DEF Commits
<1>2. GitTypes
  BY <1>1, IdleType DEF GitInit, GitTypes, Repos
<1>3. \A w \in Workers : Carries(task[w], Repo(w), remote)
  BY DEF GitInit, Carries, Idle
<1> QED BY <1>2, <1>3 DEF GitInit, GitInv, PublishedManifest

\* Any step of worker w in its own clone that leaves its manifest where it must be.
LEMMA OwnStep ==
  ASSUME SharedClone = FALSE, GitInv, NEW w \in Workers, NEW r \in Repos, NEW t \in GitTasks,
         clone' = [clone EXCEPT ![CloneOf(w)] = r],
         task' = [task EXCEPT ![w] = t],
         remote' = remote \/ (remote' \in Commits /\ IsPrefix(remote, remote')),
         published' = published,
         Carries(t, r, remote')
  PROVE  GitInv'
<1>1. CloneOf(w) = {w} /\ {w} \in Clones /\ \A v \in Workers \ {w} : CloneOf(v) = {v} /\ {v} # {w}
  BY OwnClones
<1>2. clone' = [clone EXCEPT ![{w}] = r]
  BY <1>1
<1>3. GitTypes'
  BY <1>1, <1>2 DEF GitInv, GitTypes
<1>4. \A c \in Commits : Reachable(c, remote) => Reachable(c, remote')
  BY ReachableStays DEF GitInv, GitTypes
<1>5. ASSUME NEW v \in Workers PROVE Carries(task'[v], Repo(v)', remote')
  <2>1. CASE v = w
    <3>1. task'[v] = t
      BY <2>1 DEF GitInv, GitTypes
    <3>2. Repo(v)' = r
      BY <1>1, <1>2, <2>1 DEF Repo, GitInv, GitTypes
    <3> QED BY <3>1, <3>2
  <2>2. CASE v # w
    <3>1. task'[v] = task[v] /\ task[v].commit \in Commits
      BY <2>2 DEF GitInv, GitTypes, GitTasks, AllTasks
    <3>2. Repo(v)' = Repo(v)
      BY <1>1, <1>2, <2>2 DEF Repo, GitInv, GitTypes
    <3>3. Carries(task[v], Repo(v), remote)
      BY DEF GitInv
    <3>4. Carries(task[v], Repo(v), remote')
      BY <1>4, <3>1, <3>3 DEF Carries
    <3> QED BY <3>1, <3>2, <3>4
  <2> QED BY <2>1, <2>2
<1>6. PublishedManifest'
  BY <1>4 DEF GitInv, GitTypes, PublishedManifest
<1> QED BY <1>3, <1>5, <1>6 DEF GitInv

-----------------------------------------------------------------------------
(* The steps of one worker.                                                *)

\* One that only moves on, to where nothing is asked of its manifest yet.
LEMMA PlainStep ==
  ASSUME SharedClone = FALSE, GitInv, NEW w \in Workers, NEW step \in Steps, NEW r \in Repos,
         ~At(w, "idle"), step \notin {"commit", "parse", "push", "reach", "mark"},
         Goto(w, step), clone' = [clone EXCEPT ![CloneOf(w)] = r], UNCHANGED <<remote, published>>
  PROVE  GitInv'
<1> DEFINE t == [task[w] EXCEPT !.at = step]
<1>1. task[w] \in GitTasks /\ task[w].file \in Manifests
  BY DEF GitInv, GitTypes, GitTasks, At
<1>2. t \in GitTasks /\ t.at = step
  BY <1>1 DEF GitTasks, AllTasks
<1>3. task' = [task EXCEPT ![w] = t]
  BY DEF Goto
<1>4. Carries(t, r, remote')
  BY <1>2 DEF Carries
<1> HIDE DEF t
<1> QED BY <1>2, <1>3, <1>4, OwnStep

\* One that ends the task.
LEMMA StopStep ==
  ASSUME SharedClone = FALSE, GitInv, NEW w \in Workers, task' = [task EXCEPT ![w] = Idle],
         clone' = clone, published' = published,
         remote' = remote \/ (remote' \in Commits /\ IsPrefix(remote, remote'))
  PROVE  GitInv'
<1>1. Carries(Idle, Repo(w), remote')
  BY DEF Carries, Idle
<1> QED BY <1>1, RepoType, IdleType, OwnStep

LEMMA ReadingStep ==
  ASSUME SharedClone = FALSE, GitInv, NEW w \in Workers,
         (\E m \in Manifests : Take(w, m)) \/ ListRemote(w) \/ Fetch(w) \/ Checkout(w) \/ WriteManifest(w)
  PROVE  GitInv'
<1>r. /\ Repo(w) \in Repos /\ remote \in Commits
      /\ Tree(Repo(w).fetched) \subseteq Manifests
      /\ clone = [clone EXCEPT ![CloneOf(w)] = Repo(w)]
  BY RepoType DEF GitInv, GitTypes
<1>s. {"list", "fetch", "checkout", "write", "add", "log"} \subseteq Steps
  BY DEF Steps
<1>1. ASSUME NEW m \in Manifests, Take(w, m) PROVE GitInv'
  <2> DEFINE t == [Idle EXCEPT !.at = "list", !.file = m]
  <2>1. t \in GitTasks
    BY <1>s, IdleType DEF GitTasks, AllTasks
  <2>2. Carries(t, Repo(w), remote)
    BY DEF Carries, Idle
  <2>3. task' = [task EXCEPT ![w] = t] /\ UNCHANGED <<remote, clone, published>>
    BY <1>1 DEF Take
  <2> HIDE DEF t
  <2> QED BY <1>r, <2>1, <2>2, <2>3, OwnStep
<1>2. CASE ListRemote(w)
  <2>1. ~At(w, "idle") /\ UNCHANGED <<remote, clone, published>> /\ (Goto(w, "write") \/ Goto(w, "fetch"))
    BY <1>2 DEF ListRemote, At
  <2> QED BY <1>r, <1>s, <2>1, PlainStep
<1>3. CASE Fetch(w)
  <2>1. clone' = [clone EXCEPT ![CloneOf(w)] = [Repo(w) EXCEPT !.fetched = remote]]
    BY <1>3 DEF Fetch, Repo
  <2>2. [Repo(w) EXCEPT !.fetched = remote] \in Repos
    BY <1>r DEF Repos
  <2>3. ~At(w, "idle") /\ UNCHANGED <<remote, published>> /\ Goto(w, "checkout")
    BY <1>3 DEF Fetch, At
  <2> QED BY <1>s, <2>1, <2>2, <2>3, PlainStep
<1>4. CASE Checkout(w)
  <2> DEFINE r == [Repo(w) EXCEPT !.head = Repo(w).fetched, !.staged = {},
                     !.files = (Repo(w).files \ (Tree(Repo(w).head) \cup Repo(w).staged)) \cup Tree(Repo(w).fetched)]
  <2>1. clone' = [clone EXCEPT ![CloneOf(w)] = r] /\ ~At(w, "idle")
    BY <1>4 DEF Checkout, At
  <2>2. r \in Repos
    BY <1>r DEF Repos
  <2>3. UNCHANGED <<remote, published>> /\ Goto(w, "write")
    BY <1>4 DEF Checkout
  <2> HIDE DEF r
  <2> QED BY <1>s, <2>1, <2>2, <2>3, PlainStep
<1>5. CASE WriteManifest(w)
  <2>0. ~At(w, "idle") /\ UNCHANGED <<remote, published>> /\ task[w].file \in Manifests
    BY <1>5 DEF WriteManifest, At, GitInv, GitTypes, GitTasks
  <2>1. CASE task[w].file \in Repo(w).files
    <3>1. Goto(w, "log") /\ clone' = clone
      BY <1>5, <2>1 DEF WriteManifest
    <3> QED BY <1>r, <1>s, <2>0, <3>1, PlainStep
  <2>2. CASE task[w].file \notin Repo(w).files
    <3> DEFINE r == [Repo(w) EXCEPT !.files = @ \cup {task[w].file}]
    <3> DEFINE t == [task[w] EXCEPT !.at = "add", !.fresh = TRUE]
    <3>1. clone' = [clone EXCEPT ![CloneOf(w)] = r] /\ task' = [task EXCEPT ![w] = t]
      BY <1>5, <2>2 DEF WriteManifest, Repo
    <3>2. r \in Repos
      BY <1>r, <2>0 DEF Repos
    <3>3. t \in GitTasks /\ t.at = "add"
      BY <1>s, <2>0 DEF GitInv, GitTypes, GitTasks, AllTasks
    <3>4. Carries(t, r, remote)
      BY <3>3 DEF Carries
    <3> HIDE DEF r, t
    <3> QED BY <2>0, <3>1, <3>2, <3>3, <3>4, OwnStep
  <2> QED BY <2>1, <2>2
<1> QED BY <1>1, <1>2, <1>3, <1>4, <1>5

LEMMA CommittingStep ==
  ASSUME SharedClone = FALSE, GitInv, NEW w \in Workers,
         AddManifest(w) \/ Commit(w) \/ ParseHead(w) \/ LogManifest(w) \/ AskReachable(w) \/ Push(w)
  PROVE  GitInv'
<1>r. /\ Repo(w) \in Repos /\ remote \in Commits
      /\ Tree(Repo(w).head) \subseteq Manifests
      /\ clone = [clone EXCEPT ![CloneOf(w)] = Repo(w)]
  BY RepoType DEF GitInv, GitTypes
<1>s. {"commit", "parse", "push", "reach", "mark"} \subseteq Steps
  BY DEF Steps
<1>t. ~At(w, "idle") /\ task[w] \in GitTasks /\ task[w].file \in Manifests /\ Carries(task[w], Repo(w), remote)
  BY DEF AddManifest, Commit, ParseHead, LogManifest, AskReachable, Push, At, GitInv, GitTypes, GitTasks
<1>m. ASSUME NEW step \in Steps, NEW c \in Commits
      PROVE  /\ [task[w] EXCEPT !.at = step, !.commit = c] \in GitTasks
             /\ [task[w] EXCEPT !.at = step] \in GitTasks
  BY <1>t DEF GitTasks, AllTasks
<1>c. task[w].commit \in Commits /\ task[w] \in AllTasks
  BY <1>t DEF GitTasks, AllTasks
<1>6. CASE AddManifest(w)
  <2> DEFINE r == [Repo(w) EXCEPT !.staged = @ \cup ({task[w].file} \ Tree(Repo(w).head))]
  <2> DEFINE t == [task[w] EXCEPT !.at = "commit"]
  <2>1. clone' = [clone EXCEPT ![CloneOf(w)] = r] /\ task' = [task EXCEPT ![w] = t]
    BY <1>6 DEF AddManifest, Repo, Goto
  <2>2. r \in Repos /\ t \in GitTasks
    BY <1>c, <1>m, <1>r, <1>s, <1>t DEF Repos
  <2>3. t.at = "commit" /\ t.file \in r.staged \cup Tree(r.head)
    BY <1>c, <1>r, <1>t DEF Repos, AllTasks
  <2>4. Carries(t, r, remote)
    BY <2>3 DEF Carries
  <2>5. UNCHANGED <<remote, published>>
    BY <1>6 DEF AddManifest
  <2> HIDE DEF r, t
  <2> QED BY <2>1, <2>2, <2>4, <2>5, OwnStep
<1>7. CASE Commit(w)
  <2> DEFINE r == [Repo(w) EXCEPT !.head = Append(@, Repo(w).staged), !.staged = {}]
  <2> DEFINE t == [task[w] EXCEPT !.at = "parse"]
  <2>1. clone' = [clone EXCEPT ![CloneOf(w)] = r] /\ task' = [task EXCEPT ![w] = t]
    BY <1>7 DEF Commit, Repo, Goto
  <2>2. Repo(w).head \in Commits /\ Repo(w).staged \in SUBSET Manifests
    BY <1>r DEF Repos
  <2>3. /\ Append(Repo(w).head, Repo(w).staged) \in Commits
        /\ Tree(Append(Repo(w).head, Repo(w).staged)) = Tree(Repo(w).head) \cup Repo(w).staged
    BY <2>2, TreeOfAppend
  <2>4. r \in Repos /\ r.head = Append(Repo(w).head, Repo(w).staged)
    BY <1>r, <2>3 DEF Repos
  <2>5. t \in GitTasks /\ t.at = "parse" /\ t.file = task[w].file
    BY <1>c, <1>m, <1>s DEF AllTasks
  <2>6. task[w].file \in Repo(w).staged \cup Tree(Repo(w).head)
    BY <1>7, <1>t DEF Commit, Carries, At
  <2>7. Carries(t, r, remote)
    BY <2>3, <2>4, <2>5, <2>6 DEF Carries
  <2>8. UNCHANGED <<remote, published>>
    BY <1>7 DEF Commit
  <2> HIDE DEF r, t
  <2> QED BY <2>1, <2>4, <2>5, <2>7, <2>8, OwnStep
<1>8. CASE ParseHead(w)
  <2> DEFINE t == [task[w] EXCEPT !.at = "push", !.commit = Repo(w).head]
  <2>1. task' = [task EXCEPT ![w] = t] /\ UNCHANGED <<remote, clone, published>>
    BY <1>8 DEF ParseHead
  <2>2. Repo(w).head \in Commits
    BY <1>r DEF Repos
  <2>3. t \in GitTasks /\ t.at = "push" /\ t.file = task[w].file /\ t.commit = Repo(w).head
    BY <1>c, <1>m, <1>s, <2>2 DEF AllTasks
  <2>4. task[w].file \in Tree(Repo(w).head)
    BY <1>8, <1>t DEF ParseHead, Carries, At
  <2>5. Carries(t, Repo(w), remote)
    BY <2>3, <2>4 DEF Carries
  <2> HIDE DEF t
  <2> QED BY <1>r, <2>1, <2>3, <2>5, OwnStep
<1>9. CASE LogManifest(w)
  <2>1. PICK i \in DOMAIN Repo(w).head :
          /\ task[w].file \in Repo(w).head[i]
          /\ task' = [task EXCEPT ![w].at = "reach", ![w].commit = SubSeq(Repo(w).head, 1, i)]
    BY <1>9 DEF LogManifest
  <2> DEFINE t == [task[w] EXCEPT !.at = "reach", !.commit = SubSeq(Repo(w).head, 1, i)]
  <2>2. Repo(w).head \in Commits
    BY <1>r DEF Repos
  <2>3. SubSeq(Repo(w).head, 1, i) \in Commits /\ task[w].file \in Tree(SubSeq(Repo(w).head, 1, i))
    BY <2>1, <2>2, TreeOfStart
  <2>4. t \in GitTasks /\ t.at = "reach" /\ t.file = task[w].file /\ t.commit = SubSeq(Repo(w).head, 1, i)
    BY <1>c, <1>m, <1>s, <2>3 DEF AllTasks
  <2>5. Carries(t, Repo(w), remote)
    BY <2>3, <2>4 DEF Carries
  <2>6. task' = [task EXCEPT ![w] = t] /\ UNCHANGED <<remote, clone, published>>
    BY <1>9, <2>1 DEF LogManifest
  <2> HIDE DEF t
  <2> QED BY <1>r, <2>4, <2>5, <2>6, OwnStep
<1>10. CASE AskReachable(w)
  <2> DEFINE r == [Repo(w) EXCEPT !.fetched = remote]
  <2> DEFINE t == [task[w] EXCEPT !.at = "mark"]
  <2>1. clone' = [clone EXCEPT ![CloneOf(w)] = r] /\ task' = [task EXCEPT ![w] = t]
    BY <1>10 DEF AskReachable, Repo, Goto
  <2>2. r \in Repos
    BY <1>r DEF Repos
  <2>3. t \in GitTasks /\ t.at = "mark" /\ t.file = task[w].file /\ t.commit = task[w].commit
    BY <1>c, <1>m, <1>s DEF AllTasks
  <2>4. task[w].file \in Tree(task[w].commit) /\ Reachable(task[w].commit, remote)
    BY <1>10, <1>t DEF AskReachable, Carries, At
  <2>5. Carries(t, r, remote)
    BY <2>3, <2>4 DEF Carries
  <2>6. UNCHANGED <<remote, published>>
    BY <1>10 DEF AskReachable
  <2> HIDE DEF r, t
  <2> QED BY <2>1, <2>2, <2>3, <2>5, <2>6, OwnStep
<1>11. CASE Push(w)
  <2> DEFINE t == [task[w] EXCEPT !.at = "reach"]
  <2>1. /\ task' = [task EXCEPT ![w] = t] /\ UNCHANGED <<clone, published>>
        /\ remote' = Repo(w).head /\ IsPrefix(remote, Repo(w).head)
    BY <1>11 DEF Push, Goto
  <2>2. t \in GitTasks /\ t.at = "reach" /\ t.file = task[w].file /\ t.commit = task[w].commit
    BY <1>c, <1>m, <1>s DEF AllTasks
  <2>3. task[w].file \in Tree(task[w].commit)
    BY <1>11, <1>t DEF Push, Carries, At
  <2>4. Carries(t, Repo(w), remote')
    BY <2>2, <2>3 DEF Carries
  <2>5. remote' \in Commits /\ IsPrefix(remote, remote')
    BY <1>r, <2>1 DEF Repos
  <2> HIDE DEF t
  <2> QED BY <1>r, <2>1, <2>2, <2>4, <2>5, OwnStep
<1> QED BY <1>6, <1>7, <1>8, <1>9, <1>10, <1>11

LEMMA EndingStep ==
  ASSUME SharedClone = FALSE, GitInv, NEW w \in Workers,
         PushUnheard(w) \/ MarkAnchored(w) \/ Refuse(w) \/ GiveUp(w)
  PROVE  GitInv'
<1>1. CASE PushUnheard(w)
  <2>1. /\ remote' = Repo(w).head /\ IsPrefix(remote, remote')
        /\ task' = [task EXCEPT ![w] = Idle] /\ UNCHANGED <<clone, published>>
    BY <1>1 DEF PushUnheard
  <2>2. remote' \in Commits
    BY <2>1, RepoType DEF Repos
  <2> QED BY <2>1, <2>2, StopStep
<1>2. CASE MarkAnchored(w)
  <2>1. /\ task[w].file \in Manifests /\ task[w].commit \in Commits
        /\ task[w].file \in Tree(task[w].commit) /\ Reachable(task[w].commit, remote)
    BY <1>2 DEF MarkAnchored, At, GitInv, GitTypes, GitTasks, AllTasks, Carries
  <2>2. /\ published' = [published EXCEPT ![task[w].file] = task[w].commit]
        /\ task' = [task EXCEPT ![w] = Idle] /\ UNCHANGED <<remote, clone>>
    BY <1>2 DEF MarkAnchored
  <2>3. GitTypes'
    BY <2>1, <2>2, IdleType DEF GitInv, GitTypes
  <2>4. PublishedManifest'
    BY <2>1, <2>2 DEF GitInv, GitTypes, PublishedManifest
  <2>5. ASSUME NEW v \in Workers PROVE Carries(task'[v], Repo(v)', remote')
    <3>1. Repo(v)' = Repo(v) /\ remote' = remote /\ task'[v] \in {task[v], Idle}
      BY <2>2 DEF Repo, GitInv, GitTypes
    <3>2. Carries(Idle, Repo(v), remote) /\ Carries(task[v], Repo(v), remote)
      BY DEF Carries, Idle, GitInv
    <3> QED BY <3>1, <3>2
  <2> QED BY <2>3, <2>4, <2>5 DEF GitInv
<1>3. CASE Refuse(w) \/ GiveUp(w)
  <2>1. task' = [task EXCEPT ![w] = Idle] /\ UNCHANGED <<remote, clone, published>>
    BY <1>3 DEF Refuse, GiveUp
  <2> QED BY <2>1, StopStep
<1> QED BY <1>1, <1>2, <1>3

LEMMA GitStep == SharedClone = FALSE /\ GitInv /\ [GitNext]_gitVars => GitInv'
<1> SUFFICES ASSUME SharedClone = FALSE, GitInv, [GitNext]_gitVars PROVE GitInv'
  OBVIOUS
<1>1. CASE UNCHANGED gitVars
  BY <1>1 DEF gitVars, GitInv, GitTypes, PublishedManifest, Repo
<1> QED BY <1>1, ReadingStep, CommittingStep, EndingStep DEF GitNext, Work

(* A run is ANCHORED only with a commit that holds its manifest and is on   *)
(* the remote branch (orchestration/anchor_stage.py:9), whatever commands   *)
(* failed or answered late, as long as no two workers share a clone.        *)
THEOREM AnchorsArePublic ==
  ASSUME SharedClone = FALSE PROVE GitSpec => []PublishedManifest
<1>1. GitInit => GitInv
  BY GitInitially
<1>2. GitInv /\ [GitNext]_gitVars => GitInv'
  BY GitStep
<1>3. GitInv => PublishedManifest
  BY DEF GitInv
<1> QED BY <1>1, <1>2, <1>3, PTL DEF GitSpec
=============================================================================
