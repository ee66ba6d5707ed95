-------------------------- MODULE TrustHistoryProofs --------------------------
(***************************************************************************)
(* What TrustHistory promises of the remembered trust, proved for every    *)
(* number of processes, names, repositories and documents: its types, that *)
(* the sequence of a list never falls, that trust changes are reviewed and *)
(* that a name keeps its repository.                                       *)
(*                                                                         *)
(* The argument: between Open and the end of its run a process holds the   *)
(* lock, so what it read of its history is still what is on the disk, and  *)
(* its memory differs from it only by what it is about to write (Memory).  *)
(* Everything a repository's history holds is about that repository        *)
(* (OwnRecords), and for every repository that was installed under a name  *)
(* the check of Open finds a record that says so (Noticed).                *)
(***************************************************************************)
EXTENDS TrustHistory, TLAPS

\* The stages in which a process holds the lock.
Held == {"list", "keep", "name", "candidate", "commit"}

Locking == \A p \in Proc : pc[p] \in Held => lock = p

\* A run knows what it was asked for and what its lookup found, and has no
\* list before it checks one.
Naming == \A p \in Proc :
  /\ pc[p] # "idle" => \/ name[p] \in Host /\ id[p] = None
                       \/ name[p] \in Forge /\ id[p] \in Id
  /\ pc[p] \in {"idle", "open", "list"} => list[p] = 0

\* The change from prior to next is none that needs a review, or p may make it.
ReviewedBy(p, role, prior, next) ==
  Known(prior) /\ Reviewable(prior, next) =>
    accepts[p] = [role |-> role, prior |-> prior, next |-> next]

\* A run's memory against what is on the disk: the same, but for the list that
\* it checked (in keep) and for the release that it takes (in commit).
Memory == \A p \in Proc : pc[p] \in Held =>
  LET kept == history[KeyOf(p)]
  IN  /\ pc[p] \in {"list", "name", "candidate"} => mem[p] = kept
      /\ pc[p] = "keep" => /\ mem[p].release = kept.release
                           /\ mem[p].seq >= kept.seq
                           /\ ReviewedBy(p, "list", kept.list, mem[p].list)
      /\ pc[p] \in {"keep", "name"} => Known(mem[p].list)
      /\ pc[p] = "commit" => /\ mem[p].list = kept.list
                             /\ mem[p].seq = kept.seq
                             /\ ReviewedBy(p, "release", kept.release, mem[p].release)
      /\ pc[p] # "list" => list[p] = mem[p].seq

\* No artifact was worked on under a later list than the one remembered.
Acted == \A k \in Key : acted[k] <= history[k].seq

About(h, i) == \A r \in {h.release, h.list} : Known(r) => r.source = i

\* The records of a repository's history are of that repository.
OwnRecords ==
  /\ \A i \in Id : About(history[i], i)
  /\ \A p \in Proc : pc[p] \in Held /\ id[p] # None => About(mem[p], id[p])

PinOf(h) == IF Known(h.release) THEN h.release ELSE h.list

\* What the check of a name goes by: the history of name m says i.
Says(m, i) == Known(PinOf(alias[m])) /\ PinOf(alias[m]).source = i

\* A spelling no run writes under any more, which its own record recalls.
OldSpelling(m) ==
  Alias[m] # m /\ Known(alias[m].release) /\ alias[m].release.project = m

\* For what was installed under a name there is a history that the check of
\* that name reads.
Noticed == \A n \in Forge : \A i \in used[n] :
  /\ Alias[n] = n
  /\ \E m \in Forge : Alias[m] = n /\ Says(m, i) /\ (m = n \/ OldSpelling(m))

\* A run that got past that check uses the repository installed under its name,
\* and once it has taken a release the name's history says so.
Checked ==
  \A p \in Proc : pc[p] \in Held /\ id[p] # None =>
    /\ \A i \in used[Alias[name[p]]] : i = id[p]
    /\ pc[p] = "commit" => Says(Alias[name[p]], id[p])

IInv == /\ TypeOK /\ Locking /\ Naming /\ Memory /\ Acted
        /\ OwnRecords /\ Noticed /\ Checked

-----------------------------------------------------------------------------
(* Facts about single definitions.                                         *)

\* A run's history is that of its repository or of the host it was asked for.
LEMMA KeyType ==
  ASSUME TypeOK, Naming, NEW p \in Proc, pc[p] # "idle"
  PROVE  /\ KeyOf(p) \in Key /\ name[p] \in Spelling
         /\ id[p] # None => KeyOf(p) = id[p] /\ id[p] \in Id /\ name[p] \in Forge
         /\ id[p] = None => KeyOf(p) = name[p] /\ name[p] \in Host
BY HostAssumption, KeyAssumption DEF KeyOf, Naming, Key, Forge

\* A record is of the project that was asked for and of the document's source.
LEMMA RecordOfType ==
  ASSUME NEW p \in Proc, NEW d \in Verified(p), name[p] \in Spelling
  PROVE  /\ RecordOf(p, d) \in Record /\ RecordOf(p, d) # None
         /\ RecordOf(p, d).project = name[p]
         /\ KeyOf(p) \in Id => RecordOf(p, d).source = KeyOf(p)
<1>1. d \in Doc /\ d.subject = KeyOf(p)
  BY DocsAssumption DEF Verified
<1>2. RecordOf(p, d) \in Record
  BY <1>1 DEF Doc, Record, RecordOf
<1>3. QED
  BY <1>1, <1>2, KeyAssumption, DocsAssumption DEF RecordOf, Verified

\* continuity lets nothing pass that needs a review, without the approval of it.
LEMMA ContinuityIsReview ==
  ASSUME TypeOK, NEW p \in Proc, NEW role,
         NEW prior \in Record \cup {None}, NEW next \in Record,
         Continues(p, role, prior, next)
  PROVE  ReviewedBy(p, role, prior, next)
<1> SUFFICES ASSUME prior \in Record, Known(prior), Reviewable(prior, next)
             PROVE  Changed(prior, next)
  BY DEF ReviewedBy, Continues, Approved, Known
<1>1. prior.project \in Host => next.project \in Host
  BY AliasAssumption, HostAssumption
     DEF Continues, SameProject, Forge, Record, Known
<1>2. QED
  BY <1>1 DEF Reviewable, Changed, SignerContinues, Record

\* A record continues itself.
LEMMA NothingToReview ==
  ASSUME NEW p, NEW role, NEW prior
  PROVE  ReviewedBy(p, role, prior, prior)
BY DEF ReviewedBy, Reviewable

-----------------------------------------------------------------------------
(* Types.                                                                  *)

LEMMA InitTypes == Init => TypeOK /\ Naming
<1> SUFFICES ASSUME Init PROVE TypeOK /\ Naming
  OBVIOUS
<1>1. Empty \in History
  BY SequenceBound DEF Empty, History
<1>2. /\ history \in [Key -> History] /\ alias \in [Spelling -> History]
      /\ used \in [Spelling -> SUBSET Id]
  <2>1. CASE /\ history = [k \in Key |-> Empty]
             /\ alias = [n \in Spelling |-> Empty]
             /\ used = [n \in Spelling |-> {}]
    BY <1>1, <2>1
  <2>2. CASE \E n \in Forge, d \in Docs :
               LET i == owner[Alias[n]]
                   r == [project |-> n, source |-> i, workflow |-> d.workflow,
                         pinned |-> d.pinned]
                   old == [Empty EXCEPT !.release = r]
               IN  /\ d.subject = i
                   /\ history = [[k \in Key |-> Empty] EXCEPT ![i] = old]
                   /\ alias = [[m \in Spelling |-> Empty] EXCEPT ![n] = old]
                   /\ used = [[m \in Spelling |-> {}] EXCEPT ![Alias[n]] = {i}]
    <3>1. PICK n \in Forge, d \in Docs :
            LET i == owner[Alias[n]]
                r == [project |-> n, source |-> i, workflow |-> d.workflow,
                      pinned |-> d.pinned]
                old == [Empty EXCEPT !.release = r]
            IN  /\ d.subject = i
                /\ history = [[k \in Key |-> Empty] EXCEPT ![i] = old]
                /\ alias = [[m \in Spelling |-> Empty] EXCEPT ![n] = old]
                /\ used = [[m \in Spelling |-> {}] EXCEPT ![Alias[n]] = {i}]
      BY <2>2
    <3> DEFINE i == owner[Alias[n]]
               r == [project |-> n, source |-> i, workflow |-> d.workflow,
                     pinned |-> d.pinned]
               old == [Empty EXCEPT !.release = r]
    <3>2. i \in Id
      BY DEF Init
    <3>3. r \in Record
      BY <3>2, DocsAssumption DEF Record, Doc, Forge
    <3>4. old \in History
      BY <1>1, <3>3, SequenceBound DEF History, Empty
    <3>5. /\ history = [[k \in Key |-> Empty] EXCEPT ![i] = old]
          /\ alias = [[m \in Spelling |-> Empty] EXCEPT ![n] = old]
          /\ used = [[m \in Spelling |-> {}] EXCEPT ![Alias[n]] = {i}]
      BY <3>1
    <3> HIDE DEF i, old
    <3>6. QED
      BY <1>1, <3>2, <3>4, <3>5, AliasAssumption DEF Key, Forge
  <2>3. QED
    BY <2>1, <2>2 DEF Init
<1>3. QED
  BY <1>1, <1>2, SequenceBound DEF Init, TypeOK, Naming, Pc

LEMMA LeaveTypes ==
  ASSUME TypeOK, NEW p \in Proc, Leave(p)
  PROVE  /\ lock' \in Proc \cup {None} /\ pc' \in [Proc -> Pc]
         /\ name' \in [Proc -> Spelling \cup {None}]
         /\ id' \in [Proc -> Id \cup {None}]
         /\ accepts' \in [Proc -> Change \cup {None}]
         /\ mem' \in [Proc -> History] /\ list' \in [Proc -> 0..MaxSeq]
<1>1. Empty \in History
  BY SequenceBound DEF Empty, History
<1>2. QED
  BY <1>1, SequenceBound DEF TypeOK, Leave, Goto, Pc

\* A run that ends has no name and no list.
LEMMA LeaveNaming ==
  ASSUME TypeOK, Naming, NEW p \in Proc, Leave(p)
  PROVE  Naming'
<1>1. /\ pc'[p] = "idle" /\ list'[p] = 0
      /\ \A q \in Proc \ {p} : /\ pc'[q] = pc[q] /\ name'[q] = name[q]
                              /\ id'[q] = id[q] /\ list'[q] = list[q]
  BY DEF Leave, Goto, TypeOK
<1>2. QED
  BY <1>1 DEF Naming

LEMMA NextTypes == TypeOK /\ Naming /\ [Next]_vars => TypeOK' /\ Naming'
<1> SUFFICES ASSUME TypeOK, Naming, [Next]_vars PROVE TypeOK' /\ Naming'
  OBVIOUS
<1> USE DEF disk, world, ghosts
<1>1. CASE Move
  BY <1>1 DEF Move, TypeOK, Naming
<1>2. ASSUME NEW p \in Proc, Lookup(p) PROVE TypeOK' /\ Naming'
  <2>1. PICK n \in Spelling : /\ name' = [name EXCEPT ![p] = n]
                               /\ id' = [id EXCEPT ![p] = Resolved(n)]
    BY <1>2 DEF Lookup
  <2>2. \/ n \in Host /\ Resolved(n) = None
        \/ n \in Forge /\ Resolved(n) \in Id
    BY DEF Resolved, Forge, TypeOK
  <2>3. accepts' \in [Proc -> Change \cup {None}]
    BY <1>2, ApprovalsAssumption DEF Lookup, TypeOK
  <2>4. TypeOK'
    BY <1>2, <2>1, <2>2, <2>3 DEF Lookup, TypeOK, Goto, Pc
  <2>5. pc[p] = "idle" /\ pc' = [pc EXCEPT ![p] = "open"] /\ UNCHANGED list
    BY <1>2 DEF Lookup, Goto
  <2>6. QED
    BY <2>1, <2>2, <2>4, <2>5 DEF TypeOK, Naming
<1>3. ASSUME NEW p \in Proc, Open(p) PROVE TypeOK' /\ Naming'
  <2>1. history[KeyOf(p)] \in History
    BY <1>3, KeyType DEF Open, TypeOK
  <2>2. pc[p] = "open" /\ pc' = [pc EXCEPT ![p] = "list"] /\ UNCHANGED <<name, id, list>>
    BY <1>3 DEF Open, Goto
  <2>3. TypeOK'
    BY <1>3, <2>1, <2>2 DEF Open, TypeOK, Pc
  <2>4. QED
    BY <2>2, <2>3 DEF TypeOK, Naming
<1>4. ASSUME NEW p \in Proc, NoList(p) PROVE TypeOK' /\ Naming'
  BY <1>4 DEF NoList, TypeOK, Naming, Goto, Pc
<1>5. ASSUME NEW p \in Proc, CheckList(p) PROVE TypeOK' /\ Naming'
  <2>1. PICK d \in Verified(p), s \in 1..MaxSeq :
          /\ mem' = [mem EXCEPT ![p].list = RecordOf(p, d), ![p].seq = s]
          /\ list' = [list EXCEPT ![p] = s]
    BY <1>5 DEF CheckList
  <2>2. RecordOf(p, d) \in Record
    BY <1>5, KeyType, RecordOfType DEF CheckList
  <2>3. mem' \in [Proc -> History]
    <3>1. [mem[p] EXCEPT !.list = RecordOf(p, d), !.seq = s] \in History
      <4>1. mem[p] \in History /\ s \in 0..MaxSeq
        BY SequenceBound DEF TypeOK
      <4>2. QED
        BY <2>2, <4>1 DEF History
    <3>2. mem' = [mem EXCEPT ![p] = [mem[p] EXCEPT !.list = RecordOf(p, d), !.seq = s]]
      BY <2>1 DEF TypeOK, History
    <3>3. QED
      BY <3>1, <3>2 DEF TypeOK
  <2>4. pc[p] = "list" /\ pc' = [pc EXCEPT ![p] = "keep"] /\ UNCHANGED <<name, id>>
    BY <1>5 DEF CheckList, Goto, AfterList
  <2>5. TypeOK'
    BY <1>5, <2>1, <2>3, <2>4, SequenceBound DEF CheckList, TypeOK, Pc
  <2>6. QED
    BY <2>1, <2>4, <2>5 DEF TypeOK, Naming
<1>6. ASSUME NEW p \in Proc, RememberKey(p) PROVE TypeOK' /\ Naming'
  BY <1>6 DEF RememberKey, TypeOK, Naming, Goto, Pc
<1>7. ASSUME NEW p \in Proc, RememberName(p) PROVE TypeOK' /\ Naming'
  BY <1>7 DEF RememberName, TypeOK, Naming, Goto, Pc
<1>8. ASSUME NEW p \in Proc, Candidate(p) PROVE TypeOK' /\ Naming'
  <2>1. PICK d \in Verified(p) :
          LET remembered == [mem[p] EXCEPT !.release = RecordOf(p, d)]
          IN  /\ alias' = [alias EXCEPT ![Alias[name[p]]] = remembered]
              /\ \/ mem' = [mem EXCEPT ![p] = remembered] /\ Goto(p, "commit")
                 \/ UNCHANGED <<mem, pc>>
    BY <1>8 DEF Candidate
  <2>2. RecordOf(p, d) \in Record
    BY <1>8, KeyType, RecordOfType DEF Candidate
  <2>3. [mem[p] EXCEPT !.release = RecordOf(p, d)] \in History
    BY <2>2 DEF TypeOK, History
  <2>4. acted' \in [Key -> 0..MaxSeq]
    BY <1>8, KeyType DEF Candidate, TypeOK
  <2>5. QED
    <3>1. alias' \in [Spelling -> History]
      BY <2>1, <2>3 DEF TypeOK
    <3>2. mem' \in [Proc -> History] /\ pc' \in [Proc -> Pc]
      BY <2>1, <2>3 DEF TypeOK, Goto, Pc
    <3>3. TypeOK'
      BY <1>8, <3>1, <3>2, <2>4 DEF Candidate, TypeOK
    <3>4. \A q \in Proc : /\ pc'[q] # "idle" => pc[q] # "idle"
                          /\ pc'[q] \in {"idle", "open", "list"} => pc[q] = pc'[q]
      BY <1>8, <2>1 DEF Candidate, Goto, TypeOK
    <3>5. UNCHANGED <<name, id, list>>
      BY <1>8 DEF Candidate
    <3>6. QED
      BY <3>3, <3>4, <3>5 DEF Naming
<1>9. ASSUME NEW p \in Proc, Commit(p) PROVE TypeOK' /\ Naming'
  <2>1. Leave(p) /\ UNCHANGED <<world, alias, acted, runs>> /\ pc[p] # "idle"
    BY <1>9 DEF Commit
  <2>2. history' \in [Key -> History]
    BY <1>9 DEF Commit, TypeOK
  <2>3. used' \in [Spelling -> SUBSET Id]
    <3>1. id[p] \in Id \cup {None}
      BY DEF TypeOK
    <3>2. used[Alias[name[p]]] \cup ({id[p]} \ {None}) \subseteq Id
           \/ Alias[name[p]] \notin Spelling
      BY <3>1 DEF TypeOK
    <3>3. QED
      BY <1>9, <3>2 DEF Commit, TypeOK
  <2>4. TypeOK'
    BY <2>1, <2>2, <2>3, LeaveTypes DEF TypeOK
  <2>5. QED
    BY <2>1, <2>4, LeaveNaming
<1>10. ASSUME NEW p \in Proc, Stop(p) PROVE TypeOK' /\ Naming'
  <2>1. Leave(p)
    BY <1>10 DEF Stop
  <2>2. TypeOK'
    BY <1>10, <2>1, LeaveTypes DEF Stop, TypeOK
  <2>3. QED
    BY <2>1, <2>2, LeaveNaming
<1>11. CASE UNCHANGED vars
  BY <1>11 DEF vars, TypeOK, Naming
<1>12. QED
  BY <1>1, <1>2, <1>3, <1>4, <1>5, <1>6, <1>7, <1>8, <1>9, <1>10, <1>11 DEF Next, Step

\* Every variable keeps its type.
THEOREM Types == Spec => []TypeOK
<1>1. QED
  BY InitTypes, NextTypes, PTL DEF Spec

-----------------------------------------------------------------------------
(* The invariant, initially and through every action.                      *)

\* What IInv says beyond types and names.
Rest == Locking /\ Memory /\ Acted /\ OwnRecords /\ Noticed /\ Checked

LEMMA InitRest == Init => Rest
<1> SUFFICES ASSUME Init PROVE Rest
  OBVIOUS
<1>1. \A p \in Proc : pc[p] \notin Held
  BY DEF Init, Held
<1>2. \A h : h = Empty => h.release = None /\ h.list = None /\ h.seq = 0
  BY DEF Empty
<1>3. Locking /\ Memory /\ Checked
  BY <1>1 DEF Locking, Memory, Checked
<1>4. CASE /\ history = [k \in Key |-> Empty]
           /\ alias = [n \in Spelling |-> Empty]
           /\ used = [n \in Spelling |-> {}]
  BY <1>1, <1>2, <1>3, <1>4
     DEF Rest, OwnRecords, Noticed, About, Known, Acted, Init, Key, Forge
<1>5. CASE \E n \in Forge, d \in Docs :
             LET i == owner[Alias[n]]
                 r == [project |-> n, source |-> i, workflow |-> d.workflow,
                       pinned |-> d.pinned]
                 old == [Empty EXCEPT !.release = r]
             IN  /\ d.subject = i
                 /\ history = [[k \in Key |-> Empty] EXCEPT ![i] = old]
                 /\ alias = [[m \in Spelling |-> Empty] EXCEPT ![n] = old]
                 /\ used = [[m \in Spelling |-> {}] EXCEPT ![Alias[n]] = {i}]
  <2>1. PICK n \in Forge, d \in Docs :
          LET i == owner[Alias[n]]
              r == [project |-> n, source |-> i, workflow |-> d.workflow,
                    pinned |-> d.pinned]
              old == [Empty EXCEPT !.release = r]
          IN  /\ d.subject = i
              /\ history = [[k \in Key |-> Empty] EXCEPT ![i] = old]
              /\ alias = [[m \in Spelling |-> Empty] EXCEPT ![n] = old]
              /\ used = [[m \in Spelling |-> {}] EXCEPT ![Alias[n]] = {i}]
    BY <1>5
  <2> DEFINE i == owner[Alias[n]]
             r == [project |-> n, source |-> i, workflow |-> d.workflow,
                   pinned |-> d.pinned]
             old == [Empty EXCEPT !.release = r]
  <2>2. i \in Id
    BY DEF Init
  <2>3. r \in Record /\ r.source = i /\ r.project = n
    BY <2>2, DocsAssumption DEF Record, Doc, Forge
  <2>4. old.release = r /\ old.list = None /\ old.seq = 0 /\ r # None
    BY <2>3, KeyAssumption DEF Empty
  <2>5. /\ history = [[k \in Key |-> Empty] EXCEPT ![i] = old]
        /\ alias = [[m \in Spelling |-> Empty] EXCEPT ![n] = old]
        /\ used = [[m \in Spelling |-> {}] EXCEPT ![Alias[n]] = {i}]
    BY <2>1
  <2> HIDE DEF i, r, old
  <2>6. Acted /\ OwnRecords
    BY <1>1, <1>2, <2>2, <2>3, <2>4, <2>5
       DEF Acted, OwnRecords, About, Known, Init, Key
  <2>7. Says(n, i) /\ (Alias[n] = n \/ OldSpelling(n))
    BY <2>3, <2>4, <2>5 DEF Says, PinOf, OldSpelling, Known, Forge
  <2>8. Noticed
    <3> SUFFICES ASSUME NEW m \in Forge, NEW j \in used[m]
                 PROVE  /\ Alias[m] = m
                        /\ \E a \in Forge : Alias[a] = m /\ Says(a, j)
                                            /\ (a = m \/ OldSpelling(a))
      BY DEF Noticed
    <3>1. m = Alias[n] /\ j = i
      BY <2>5 DEF Forge
    <3>2. QED
      BY <2>7, <3>1, AliasAssumption DEF Forge
  <2>9. QED
    BY <1>3, <2>6, <2>8 DEF Rest
<1>6. QED
  BY <1>4, <1>5 DEF Init

\* Two processes never both hold the lock.
LEMMA Alone ==
  ASSUME Locking, NEW p \in Proc, NEW q \in Proc, pc[p] \in Held, pc[q] \in Held
  PROVE  p = q
BY DEF Locking

\* A step that changes nothing of what is remembered, of any run that holds
\* the lock and of who holds it.
LEMMA Frame ==
  ASSUME Rest,
         UNCHANGED <<history, alias, acted, used>>,
         \A q \in Proc : pc'[q] \in Held =>
            /\ pc[q] = pc'[q] /\ lock' = lock /\ name'[q] = name[q] /\ id'[q] = id[q]
            /\ accepts'[q] = accepts[q] /\ mem'[q] = mem[q] /\ list'[q] = list[q]
  PROVE  Rest'
<1>1. \A q \in Proc : pc'[q] \in Held => KeyOf(q)' = KeyOf(q)
  BY DEF KeyOf
<1>2. Locking' /\ Acted' /\ Noticed'
  BY DEF Rest, Locking, Acted, Noticed, Says, OldSpelling, PinOf, Known
<1>3. OwnRecords'
  BY DEF Rest, OwnRecords, About, Known
<1>4. Checked'
  BY DEF Rest, Checked, Says, PinOf, Known
<1>5. Memory'
  BY <1>1 DEF Rest, Memory, ReviewedBy, Reviewable, Known
<1>6. QED
  BY <1>2, <1>3, <1>4, <1>5 DEF Rest

LEMMA StopRest ==
  ASSUME IInv, NEW p \in Proc, Stop(p)
  PROVE  Rest'
<1>1. Rest
  BY DEF IInv, Rest
<1>2. \A q \in Proc : pc'[q] \in Held => q # p
  BY DEF Stop, Leave, Goto, IInv, TypeOK, Held
<1>3. \A q \in Proc : q # p =>
        /\ pc[q] = pc'[q] /\ name'[q] = name[q] /\ id'[q] = id[q]
        /\ accepts'[q] = accepts[q] /\ mem'[q] = mem[q] /\ list'[q] = list[q]
  BY DEF Stop, Leave, Goto, IInv, TypeOK
<1>4. \A q \in Proc : pc'[q] \in Held => lock' = lock
  BY <1>1, <1>2, <1>3 DEF Stop, Leave, Rest, Locking
<1>5. UNCHANGED <<history, alias, acted, used>>
  BY DEF Stop, disk, ghosts
<1>6. QED
  BY <1>1, <1>2, <1>3, <1>4, <1>5, Frame

LEMMA LookupRest ==
  ASSUME IInv, NEW p \in Proc, Lookup(p)
  PROVE  Rest'
<1>1. Rest
  BY DEF IInv, Rest
<1>2. \A q \in Proc : pc'[q] \in Held => q # p
  BY DEF Lookup, Goto, IInv, TypeOK, Held
<1>3. \A q \in Proc : q # p =>
        /\ pc[q] = pc'[q] /\ name'[q] = name[q] /\ id'[q] = id[q]
        /\ accepts'[q] = accepts[q] /\ mem'[q] = mem[q] /\ list'[q] = list[q]
  BY DEF Lookup, Goto, IInv, TypeOK
<1>4. UNCHANGED <<history, alias, acted, used, lock>>
  BY DEF Lookup, disk, ghosts
<1>5. QED
  BY <1>1, <1>2, <1>3, <1>4, Frame

\* After the check of the name, what was installed under it is the repository
\* that this run goes to.
LEMMA NameIsChecked ==
  ASSUME IInv, NEW p \in Proc, pc[p] = "open", ~NameTaken(p), id[p] # None,
         NEW i \in used[Alias[name[p]]]
  PROVE  i = id[p]
<1>1. name[p] \in Forge /\ Alias[name[p]] \in Forge /\ id[p] \in Id
  BY AliasAssumption DEF IInv, Naming, Forge
<1>2. PICK m \in Forge : /\ Alias[m] = Alias[name[p]] /\ Says(m, i)
                         /\ m = Alias[name[p]] \/ OldSpelling(m)
  BY <1>1 DEF IInv, Noticed
<1>3. i # None
  BY <1>1, KeyAssumption DEF IInv, TypeOK, Forge
<1>4. ASSUME OldSpelling(m) PROVE m \in RememberedProjects
  <2>1. alias[m].release # None /\ alias[m].release.project = m
    BY <1>4 DEF OldSpelling, Known
  <2> DEFINE files == {history[k] : k \in Key} \cup {alias[n] : n \in Spelling}
             records == {h.release : h \in files} \cup {h.list : h \in files}
  <2>2. alias[m] \in files
    BY DEF Forge
  <2>3. alias[m].release \in records \ {None}
    BY <2>1, <2>2
  <2>4. QED
    BY <2>1, <2>3 DEF RememberedProjects
<1>5. m \in {n \in RememberedProjects : SameProject(n, name[p])}
           \cup {name[p], Alias[name[p]]}
  BY <1>2, <1>4 DEF SameProject
<1>6. QED
  BY <1>2, <1>3, <1>5 DEF NameTaken, Says, PinOf

LEMMA OpenRest ==
  ASSUME IInv, Naming', NEW p \in Proc, Open(p)
  PROVE  Rest'
<1>1. \A q \in Proc : pc[q] \notin Held
  BY KeyAssumption DEF Open, StateUnlocked, IInv, Locking
<1>2. /\ pc' = [pc EXCEPT ![p] = "list"] /\ pc[p] = "open" /\ lock' = p
      /\ mem' = [mem EXCEPT ![p] = history[KeyOf(p)]] /\ ~NameTaken(p)
      /\ UNCHANGED <<history, alias, name, id, accepts, list, acted, used>>
  BY DEF Open, Goto, disk, ghosts
<1>3. \A q \in Proc : pc'[q] \in Held => q = p
  BY <1>1, <1>2 DEF IInv, TypeOK
<1>4. pc'[p] = "list" /\ mem'[p] = history[KeyOf(p)] /\ KeyOf(p)' = KeyOf(p)
  BY <1>2 DEF IInv, TypeOK, KeyOf
<1>5. Locking' /\ Acted' /\ Noticed'
  BY <1>2, <1>3 DEF IInv, Locking, Acted, Noticed, Says, OldSpelling, PinOf, Known
<1>6. Memory'
  BY <1>2, <1>3, <1>4 DEF Memory
<1>7. OwnRecords'
  <2>1. id[p] # None => KeyOf(p) = id[p] /\ id[p] \in Id
    BY <1>2, KeyType DEF IInv
  <2>2. QED
    BY <1>2, <1>3, <1>4, <2>1 DEF IInv, OwnRecords, About, Known
<1>8. Checked'
  BY <1>2, <1>3, <1>4, NameIsChecked DEF Checked
<1>9. QED
  BY <1>5, <1>6, <1>7, <1>8 DEF Rest

\* Steps of a run that holds the lock: nobody else does, before or after.
LEMMA OnlyOne ==
  ASSUME IInv, NEW p \in Proc, pc[p] \in Held, pc' \in [Proc -> Pc],
         \A q \in Proc : q # p => pc'[q] = pc[q], UNCHANGED lock
  PROVE  /\ \A q \in Proc : pc'[q] \in Held => q = p
         /\ Locking'
BY Alone DEF IInv, Locking

LEMMA NoListRest ==
  ASSUME IInv, NEW p \in Proc, NoList(p)
  PROVE  Rest'
<1>1. /\ pc[p] = "list" /\ FreshList(0, mem[p].seq) /\ pc' = [pc EXCEPT ![p] = "candidate"]
      /\ UNCHANGED <<history, alias, lock, name, id, accepts, mem, list, acted, used>>
  BY DEF NoList, Goto, disk, ghosts
<1>2. Locking' /\ \A q \in Proc : pc'[q] \in Held => q = p
  BY <1>1, OnlyOne DEF IInv, TypeOK, Held, Pc
<1>3. /\ pc'[p] = "candidate" /\ KeyOf(p)' = KeyOf(p) /\ mem[p].seq = 0
      /\ pc[p] \in Held /\ list[p] = 0
  BY <1>1 DEF IInv, TypeOK, KeyOf, FreshList, Held, Naming
<1>4. Memory'
  BY <1>1, <1>2, <1>3 DEF IInv, Memory
<1>5. Acted' /\ Noticed'
  BY <1>1 DEF IInv, Acted, Noticed, Says, OldSpelling, PinOf, Known
<1>6. OwnRecords' /\ Checked'
  BY <1>1, <1>2, <1>3 DEF IInv, OwnRecords, About, Known, Checked
<1>7. QED
  BY <1>2, <1>4, <1>5, <1>6 DEF Rest

LEMMA CheckListRest ==
  ASSUME IInv, NEW p \in Proc, CheckList(p)
  PROVE  Rest'
<1>1. PICK d \in Verified(p), s \in 1..MaxSeq :
        /\ FreshList(s, mem[p].seq)
        /\ Continues(p, "list", mem[p].list, RecordOf(p, d))
        /\ mem' = [mem EXCEPT ![p].list = RecordOf(p, d), ![p].seq = s]
        /\ list' = [list EXCEPT ![p] = s]
  BY DEF CheckList
<1>2. /\ pc[p] = "list" /\ pc' = [pc EXCEPT ![p] = "keep"] /\ pc[p] \in Held
      /\ UNCHANGED <<history, alias, lock, name, id, accepts, acted, used>>
  BY DEF CheckList, Goto, disk, ghosts, AfterList, Held
<1>3. Locking' /\ \A q \in Proc : pc'[q] \in Held => q = p
  BY <1>2, OnlyOne DEF IInv, TypeOK, Pc
<1>4. /\ pc'[p] = "keep" /\ KeyOf(p)' = KeyOf(p) /\ list'[p] = s
      /\ mem'[p].list = RecordOf(p, d) /\ mem'[p].seq = s
      /\ mem'[p].release = mem[p].release
  BY <1>1, <1>2 DEF IInv, TypeOK, KeyOf, History
<1>5. /\ RecordOf(p, d) \in Record /\ Known(RecordOf(p, d))
      /\ KeyOf(p) \in Id => RecordOf(p, d).source = KeyOf(p)
  BY <1>2, KeyType, RecordOfType DEF IInv, Known
<1>6. mem[p] = history[KeyOf(p)] /\ mem[p] \in History
  BY <1>2 DEF IInv, Memory, TypeOK
<1>7. Memory'
  <2>1. s >= history[KeyOf(p)].seq
    BY <1>1, <1>6 DEF FreshList, History
  <2>2. ReviewedBy(p, "list", history[KeyOf(p)].list, RecordOf(p, d))
    BY <1>1, <1>5, <1>6, ContinuityIsReview DEF IInv, History
  <2>3. QED
    BY <1>2, <1>3, <1>4, <1>5, <1>6, <2>1, <2>2 DEF Memory, ReviewedBy, Reviewable, Known
<1>8. Acted' /\ Noticed'
  BY <1>2 DEF IInv, Acted, Noticed, Says, OldSpelling, PinOf, Known
<1>9. OwnRecords'
  <2>1. id[p] # None => About(mem[p], id[p]) /\ RecordOf(p, d).source = id[p]
    BY <1>2, <1>5, KeyType DEF IInv, OwnRecords
  <2>2. QED
    BY <1>2, <1>3, <1>4, <2>1 DEF IInv, OwnRecords, About, Known
<1>10. Checked'
  BY <1>2, <1>3, <1>4 DEF IInv, Checked
<1>11. QED
  BY <1>3, <1>7, <1>8, <1>9, <1>10 DEF Rest

LEMMA RememberKeyRest ==
  ASSUME IInv, NEW p \in Proc, RememberKey(p)
  PROVE  Rest'
<1>1. /\ pc[p] = "keep" /\ pc' = [pc EXCEPT ![p] = "name"] /\ pc[p] \in Held
      /\ history' = [history EXCEPT ![KeyOf(p)] = mem[p]]
      /\ UNCHANGED <<alias, lock, name, id, accepts, mem, list, acted, used>>
  BY DEF RememberKey, Goto, ghosts, Held
<1>2. Locking' /\ \A q \in Proc : pc'[q] \in Held => q = p
  BY <1>1, OnlyOne DEF IInv, TypeOK, Pc
<1>3. /\ KeyOf(p) \in Key /\ history'[KeyOf(p)] = mem[p]
      /\ \A k \in Key : k # KeyOf(p) => history'[k] = history[k]
  BY <1>1, KeyType DEF IInv, TypeOK
<1>4. pc'[p] = "name" /\ KeyOf(p)' = KeyOf(p)
  BY <1>1 DEF IInv, TypeOK, KeyOf
<1>5. Memory'
  BY <1>1, <1>2, <1>3, <1>4 DEF IInv, Memory
<1>6. Acted'
  <2>1. mem[p].seq >= history[KeyOf(p)].seq /\ acted[KeyOf(p)] <= history[KeyOf(p)].seq
    BY <1>1, <1>3 DEF IInv, Memory, Acted
  <2>2. mem[p].seq \in Nat /\ history[KeyOf(p)].seq \in Nat /\ acted[KeyOf(p)] \in Nat
    BY <1>3, SequenceBound DEF IInv, TypeOK, History
  <2>3. QED
    BY <1>1, <1>3, <2>1, <2>2 DEF IInv, Acted
<1>7. Noticed'
  BY <1>1 DEF IInv, Noticed, Says, OldSpelling, PinOf, Known
<1>8. OwnRecords'
  <2>1. \A i \in Id : i = KeyOf(p) => About(mem[p], i)
    BY <1>1, KeyType, KeyAssumption, HostAssumption DEF IInv, OwnRecords
  <2>2. QED
    BY <1>1, <1>2, <1>3, <1>4, <2>1 DEF IInv, OwnRecords, About, Known, Key
<1>9. Checked'
  BY <1>1, <1>2, <1>4 DEF IInv, Checked
<1>10. QED
  BY <1>2, <1>5, <1>6, <1>7, <1>8, <1>9 DEF Rest

\* Writing a history about i under its name, where only i was installed.
LEMMA AliasWritten ==
  ASSUME IInv, NEW p \in Proc, pc[p] \in Held, NEW h \in History,
         Known(PinOf(h)), id[p] # None => About(h, id[p]),
         alias' = [alias EXCEPT ![Alias[name[p]]] = h], UNCHANGED <<name, id, used>>
  PROVE  /\ Noticed'
         /\ id[p] # None => Says(Alias[name[p]], id[p])'
<1> DEFINE a == Alias[name[p]]
<1>1. a \in Spelling /\ Alias[a] = a /\ name[p] \in Spelling
  BY KeyType, AliasAssumption DEF IInv, Held
<1>2. alias'[a] = h /\ \A m \in Spelling : m # a => alias'[m] = alias[m]
  BY <1>1 DEF IInv, TypeOK
<1>3. id[p] # None => Says(a, id[p])'
  <2>1. id[p] # None => PinOf(h).source = id[p]
    BY DEF PinOf, About, Known
  <2>2. QED
    BY <1>1, <1>2, <2>1 DEF Says
<1>4. Noticed'
  <2> SUFFICES ASSUME NEW n \in Forge, NEW i \in used[n]
               PROVE  /\ Alias[n] = n
                      /\ \E m \in Forge : /\ Alias[m] = n /\ Says(m, i)'
                                          /\ m = n \/ OldSpelling(m)'
    BY DEF Noticed
  <2>1. PICK m \in Forge : /\ Alias[m] = n /\ Says(m, i)
                           /\ m = n \/ OldSpelling(m)
    BY DEF IInv, Noticed
  <2>2. Alias[n] = n
    BY DEF IInv, Noticed
  <2>3. CASE n = a
    <3>1. id[p] # None /\ i = id[p]
      BY <2>3, KeyType, AliasAssumption DEF IInv, Checked, Held, Forge
    <3>2. QED
      BY <1>3, <2>2, <2>3, <3>1
  <2>4. CASE n # a
    <3>1. m # a
      BY <1>1, <2>1, <2>4
    <3>2. alias'[m] = alias[m]
      BY <1>2, <3>1 DEF Forge
    <3>3. QED
      BY <2>1, <2>2, <3>2 DEF Says, OldSpelling, PinOf, Known
  <2>5. QED
    BY <2>3, <2>4
<1>5. QED
  BY <1>3, <1>4

LEMMA RememberNameRest ==
  ASSUME IInv, NEW p \in Proc, RememberName(p)
  PROVE  Rest'
<1>1. /\ pc[p] = "name" /\ pc' = [pc EXCEPT ![p] = "candidate"] /\ pc[p] \in Held
      /\ alias' = [alias EXCEPT ![Alias[name[p]]] = mem[p]]
      /\ UNCHANGED <<history, lock, name, id, accepts, mem, list, acted, used>>
  BY DEF RememberName, Goto, ghosts, Held
<1>2. Locking' /\ \A q \in Proc : pc'[q] \in Held => q = p
  BY <1>1, OnlyOne DEF IInv, TypeOK, Pc
<1>3. pc'[p] = "candidate" /\ KeyOf(p)' = KeyOf(p)
  BY <1>1 DEF IInv, TypeOK, KeyOf
<1>4. Memory'
  BY <1>1, <1>2, <1>3 DEF IInv, Memory
<1>5. Acted' /\ OwnRecords' /\ Checked'
  BY <1>1, <1>2, <1>3 DEF IInv, Acted, OwnRecords, About, Known, Checked
<1>6. Noticed'
  <2>1. mem[p] \in History /\ Known(mem[p].list)
    BY <1>1 DEF IInv, TypeOK, Memory
  <2>2. Known(PinOf(mem[p])) /\ (id[p] # None => About(mem[p], id[p]))
    BY <1>1, <2>1 DEF PinOf, IInv, OwnRecords
  <2>3. QED
    BY <1>1, <2>1, <2>2, AliasWritten
<1>7. QED
  BY <1>2, <1>4, <1>5, <1>6 DEF Rest

LEMMA CandidateRest ==
  ASSUME IInv, NEW p \in Proc, Candidate(p)
  PROVE  Rest'
<1> DEFINE Taken(d) == [mem[p] EXCEPT !.release = RecordOf(p, d)]
<1>1. PICK d \in Verified(p) :
        /\ Continues(p, "release", mem[p].release, RecordOf(p, d))
        /\ alias' = [alias EXCEPT ![Alias[name[p]]] = Taken(d)]
        /\ \/ mem' = [mem EXCEPT ![p] = Taken(d)] /\ pc' = [pc EXCEPT ![p] = "commit"]
           \/ UNCHANGED <<mem, pc>>
  BY DEF Candidate, Goto
<1>2. /\ pc[p] = "candidate" /\ pc[p] \in Held
      /\ acted' = [acted EXCEPT ![KeyOf(p)] = IF list[p] > @ THEN list[p] ELSE @]
      /\ UNCHANGED <<history, lock, name, id, accepts, list, used>>
  BY DEF Candidate, Held
<1>3. Locking' /\ \A q \in Proc : pc'[q] \in Held => q = p
  BY <1>1, <1>2, OnlyOne DEF IInv, TypeOK, Pc
<1>4. KeyOf(p) \in Key /\ KeyOf(p)' = KeyOf(p)
  BY <1>2, KeyType DEF IInv, KeyOf
<1>5. /\ mem[p] = history[KeyOf(p)] /\ list[p] = mem[p].seq /\ mem[p] \in History
  BY <1>2 DEF IInv, Memory, TypeOK
<1>6. /\ RecordOf(p, d) \in Record /\ Known(RecordOf(p, d))
      /\ KeyOf(p) \in Id => RecordOf(p, d).source = KeyOf(p)
  BY <1>2, KeyType, RecordOfType DEF IInv, Known
<1>7. /\ Taken(d) \in History /\ Taken(d).release = RecordOf(p, d)
      /\ Taken(d).list = mem[p].list /\ Taken(d).seq = mem[p].seq
  BY <1>5, <1>6 DEF History
<1>8. \/ pc'[p] = "commit" /\ mem'[p] = Taken(d)
      \/ pc'[p] = "candidate" /\ mem'[p] = mem[p]
  BY <1>1, <1>2 DEF IInv, TypeOK
<1> HIDE DEF Taken
<1>9. Memory'
  <2>1. ReviewedBy(p, "release", history[KeyOf(p)].release, RecordOf(p, d))
    BY <1>1, <1>5, <1>6, ContinuityIsReview DEF IInv, History
  <2>2. QED
    BY <1>2, <1>3, <1>4, <1>5, <1>7, <1>8, <2>1 DEF Memory, ReviewedBy, Reviewable, Known
<1>10. Acted'
  <2>1. acted[KeyOf(p)] \in Nat /\ list[p] \in Nat /\ history[KeyOf(p)].seq \in Nat
    BY <1>4, <1>5, SequenceBound DEF IInv, TypeOK, History
  <2>2. acted'[KeyOf(p)] <= history[KeyOf(p)].seq
    BY <1>2, <1>4, <1>5, <2>1 DEF IInv, TypeOK, Acted
  <2>3. QED
    BY <1>2, <2>2 DEF IInv, TypeOK, Acted
<1>11. id[p] # None => About(mem[p], id[p]) /\ About(Taken(d), id[p])
  <2>1. id[p] # None => About(mem[p], id[p]) /\ RecordOf(p, d).source = id[p]
    BY <1>2, <1>6, KeyType DEF IInv, OwnRecords
  <2>2. QED
    BY <1>7, <2>1 DEF About
<1>12. OwnRecords'
  BY <1>2, <1>3, <1>8, <1>11 DEF IInv, OwnRecords, About, Known
<1>13. Noticed' /\ (id[p] # None => Says(Alias[name[p]], id[p])')
  BY <1>1, <1>2, <1>6, <1>7, <1>11, AliasWritten DEF PinOf
<1>14. Checked'
  BY <1>2, <1>3, <1>13 DEF IInv, Checked
<1>15. QED
  BY <1>3, <1>9, <1>10, <1>12, <1>13, <1>14 DEF Rest

LEMMA CommitRest ==
  ASSUME IInv, NEW p \in Proc, Commit(p)
  PROVE  Rest'
<1> DEFINE a == Alias[name[p]]
<1>1. /\ pc[p] = "commit" /\ pc[p] \in Held
      /\ history' = [history EXCEPT ![KeyOf(p)] = mem[p]]
      /\ used' = [used EXCEPT ![a] = @ \cup ({id[p]} \ {None})]
      /\ UNCHANGED <<alias, acted>>
  BY DEF Commit, Held
<1>2. \A q \in Proc : pc'[q] \notin Held
  BY <1>1, Alone DEF Commit, Leave, Goto, IInv, TypeOK, Held
<1>3. Locking' /\ Memory' /\ Checked'
  BY <1>2 DEF Locking, Memory, Checked
<1>4. /\ KeyOf(p) \in Key /\ mem[p].seq = history[KeyOf(p)].seq
  BY <1>1, KeyType DEF IInv, Memory
<1>5. Acted'
  BY <1>1, <1>4 DEF IInv, TypeOK, Acted
<1>6. OwnRecords'
  <2>1. \A i \in Id : i = KeyOf(p) => About(mem[p], i)
    BY <1>1, KeyType, KeyAssumption, HostAssumption DEF IInv, OwnRecords
  <2>2. QED
    BY <1>1, <1>2, <2>1 DEF IInv, TypeOK, OwnRecords, About, Known, Key
<1>7. Noticed'
  <2> SUFFICES ASSUME NEW n \in Forge, NEW i \in used'[n]
               PROVE  /\ Alias[n] = n
                      /\ \E m \in Forge : /\ Alias[m] = n /\ Says(m, i)
                                          /\ m = n \/ OldSpelling(m)
    BY <1>1 DEF Noticed, Says, OldSpelling, PinOf, Known
  <2>1. CASE i \in used[n]
    BY <2>1 DEF IInv, Noticed
  <2>2. CASE i \notin used[n]
    <3>1. n = a /\ i = id[p] /\ id[p] # None
      BY <1>1, <2>2 DEF IInv, TypeOK, Forge
    <3>2. Says(a, id[p])
      BY <1>1, <3>1 DEF IInv, Checked
    <3>3. Alias[a] = a
      BY <1>1, KeyType, AliasAssumption DEF IInv
    <3>4. QED
      BY <3>1, <3>2, <3>3
  <2>3. QED
    BY <2>1, <2>2
<1>8. QED
  BY <1>3, <1>5, <1>6, <1>7 DEF Rest

\* The invariant is inductive.
LEMMA NextRest == IInv /\ Naming' /\ [Next]_vars => Rest'
<1> SUFFICES ASSUME IInv, Naming', [Next]_vars PROVE Rest'
  OBVIOUS
<1>1. Rest
  BY DEF IInv, Rest
<1>2. CASE Move \/ UNCHANGED vars
  BY <1>1, <1>2, Frame DEF Move, vars, disk, ghosts, world
<1>3. QED
  BY <1>2, LookupRest, OpenRest, NoListRest, CheckListRest, RememberKeyRest,
     RememberNameRest, CandidateRest, CommitRest, StopRest DEF Next, Step

THEOREM Invariance == Spec => []IInv
<1>1. Init => IInv
  BY InitTypes, InitRest DEF IInv, Rest
<1>2. IInv /\ [Next]_vars => IInv'
  BY NextTypes, NextRest DEF IInv, Rest
<1>3. QED
  BY <1>1, <1>2, PTL DEF Spec

-----------------------------------------------------------------------------
(* The properties.                                                         *)

\* No run takes a release under a list older than one that artifacts were
\* worked on under, whatever failed or was killed in between.
THEOREM NeverAnOlderList == Spec => []NoOlderList
<1>1. IInv => NoOlderList
  <2> SUFFICES ASSUME IInv, NEW p \in Proc, pc[p] = "commit"
               PROVE  list[p] >= acted[KeyOf(p)]
    BY DEF NoOlderList
  <2>1. KeyOf(p) \in Key /\ pc[p] \in Held
    BY KeyType DEF IInv, Held
  <2>2. list[p] = history[KeyOf(p)].seq /\ acted[KeyOf(p)] <= history[KeyOf(p)].seq
    BY <2>1 DEF IInv, Memory, Acted
  <2>3. list[p] \in Nat /\ acted[KeyOf(p)] \in Nat
    BY <2>1, SequenceBound DEF IInv, TypeOK
  <2>4. QED
    BY <2>2, <2>3
<1>2. QED
  BY <1>1, Invariance, PTL

\* One repository at most is ever installed under a name, however often the
\* name is renamed away, deleted and taken, and however it is spelled.
THEOREM OneRepositoryPerName == Spec => []NameKeepsRepository
<1>1. Init => NameKeepsRepository
  <2> SUFFICES ASSUME Init, NEW n \in Forge, NEW i \in used[n], NEW j \in used[n]
               PROVE  i = j
    BY DEF NameKeepsRepository
  <2>1. CASE used = [m \in Spelling |-> {}]
    BY <2>1 DEF Forge
  <2>2. CASE \E m \in Forge :
               used = [[k \in Spelling |-> {}] EXCEPT ![Alias[m]] = {owner[Alias[m]]}]
    BY <2>2 DEF Forge
  <2>3. QED
    BY <2>1, <2>2 DEF Init
<1>2. IInv /\ NameKeepsRepository /\ [Next]_vars => NameKeepsRepository'
  <2> SUFFICES ASSUME IInv, NameKeepsRepository, [Next]_vars,
                      NEW n \in Forge, NEW i \in used'[n], NEW j \in used'[n]
               PROVE  i = j
    BY DEF NameKeepsRepository
  <2>1. CASE UNCHANGED used
    BY <2>1 DEF NameKeepsRepository
  <2>2. ASSUME NEW p \in Proc, Commit(p) PROVE i = j
    <3>1. /\ used' = [used EXCEPT ![Alias[name[p]]] = @ \cup ({id[p]} \ {None})]
          /\ pc[p] \in Held
      BY <2>2 DEF Commit, Held
    <3>2. id[p] # None => \A k \in used[Alias[name[p]]] : k = id[p]
      BY <3>1 DEF IInv, Checked
    <3>3. QED
      BY <3>1, <3>2 DEF IInv, TypeOK, NameKeepsRepository, Forge
  <2>3. QED
    BY <2>1, <2>2 DEF Next, Step, Move, Lookup, Open, NoList, CheckList, RememberKey,
       RememberName, Candidate, Stop, vars, ghosts
<1>3. QED
  BY <1>1, <1>2, Invariance, PTL DEF Spec

\* A step that writes a history writes the memory of a run that holds the lock.
LEMMA HistoryWrites ==
  ASSUME IInv, [Next]_vars, NEW k \in Key, history'[k] # history[k]
  PROVE  \E p \in Proc : /\ pc[p] \in {"keep", "commit"}
                         /\ k = KeyOf(p) /\ history'[k] = mem[p]
<1>1. ASSUME NEW p \in Proc, RememberKey(p) \/ Commit(p)
      PROVE  /\ pc[p] \in {"keep", "commit"}
             /\ k = KeyOf(p) /\ history'[k] = mem[p]
  BY <1>1 DEF RememberKey, Commit, IInv, TypeOK
<1>2. QED
  BY <1>1 DEF Next, Step, Move, Lookup, Open, NoList, CheckList,
     RememberName, Candidate, Stop, vars, disk

\* What is remembered is never older than it was.
THEOREM NeverFalls == Spec => SequenceNeverFalls
<1>1. IInv /\ [Next]_vars => \A k \in Key : history'[k].seq >= history[k].seq
  <2> SUFFICES ASSUME IInv, [Next]_vars, NEW k \in Key
               PROVE  history'[k].seq >= history[k].seq
    OBVIOUS
  <2>1. history[k].seq \in Nat
    BY SequenceBound DEF IInv, TypeOK, History
  <2>2. CASE history'[k] = history[k]
    BY <2>1, <2>2
  <2>3. CASE history'[k] # history[k]
    BY <2>1, <2>3, HistoryWrites DEF IInv, Memory, Held
  <2>4. QED
    BY <2>2, <2>3
<1>2. QED
  BY <1>1, Invariance, PTL DEF Spec, SequenceNeverFalls

\* The signer of an installation changes only in a run that was told to accept
\* exactly this change.
THEOREM ChangesAreReviewed == Spec => TrustChangesReviewed
<1> DEFINE All == \A k \in Key :
               /\ Reviewed("release", history[k].release, history'[k].release)
               /\ Reviewed("list", history[k].list, history'[k].list)
<1>1. IInv /\ [Next]_vars => All
  <2> SUFFICES ASSUME IInv, [Next]_vars, NEW k \in Key
               PROVE  /\ Reviewed("release", history[k].release, history'[k].release)
                      /\ Reviewed("list", history[k].list, history'[k].list)
    OBVIOUS
  <2>1. CASE history'[k] = history[k]
    BY <2>1 DEF Reviewed, Reviewable
  <2>2. CASE history'[k] # history[k]
    <3>1. PICK p \in Proc : /\ pc[p] \in {"keep", "commit"}
                            /\ k = KeyOf(p) /\ history'[k] = mem[p]
      BY <2>2, HistoryWrites
    <3>2. /\ ReviewedBy(p, "release", history[k].release, mem[p].release)
          /\ ReviewedBy(p, "list", history[k].list, mem[p].list)
      BY <3>1, NothingToReview DEF IInv, Memory, Held
    <3>3. QED
      BY <3>1, <3>2 DEF Reviewed, ReviewedBy
  <2>3. QED
    BY <2>1, <2>2
<1>2. QED
  BY <1>1, Invariance, PTL DEF Spec, TrustChangesReviewed
=============================================================================
