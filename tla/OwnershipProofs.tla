--------------------------- MODULE OwnershipProofs ---------------------------
(***************************************************************************)
(* What Ownership promises of trees and commands, proved for every set of  *)
(* projects, directories, names and releases and however often the         *)
(* projects install and the user edits.                                    *)
(*                                                                         *)
(* What a receipt records leads only into trees that the project was once  *)
(* installed in (Hosted), every command that is not the user's was placed  *)
(* by somebody (Answered), and a marked tree is of the project of whoever  *)
(* replaced it last (Kept). CommandsTracked is itself inductive with them. *)
(***************************************************************************)
EXTENDS Ownership, TLAPS

Hosted ==
  \A o \in Owner : receipt[o] # Nothing =>
    \A path \in DOMAIN receipt[o].exports :
      o[2] \in hosted[receipt[o].exports[path].tree]

Answered == \A s \in Seats : command[s] \notin {Nothing, Alien} => placed[s] # Nothing

Kept == \A t \in Tree : tree[t] \notin {Nothing, Alien} =>
          keeper[t] # Nothing /\ keeper[t][2] = tree[t].marker

LastTyped == last.owner \in Owner \cup {Nothing}

IInv == TypeOK /\ LastTyped /\ Hosted /\ Answered /\ Kept /\ CommandsTracked

-----------------------------------------------------------------------------
(* Paths, seats and receipts.                                              *)

LEMMA SeatType ==
  ASSUME NEW path \in Path
  PROVE  Seat(path) \in Seats /\ Seat(path)[1] = path[1] /\ path[1] \in Bin
BY DEF Seat, Seats, Path

\* The commands of a release in one directory have a seat each.
LEMMA OneSeatEach ==
  ASSUME NEW b \in Bin, NEW r \in Release, Exportable(r),
         NEW p \in {b} \X DOMAIN r, NEW q \in {b} \X DOMAIN r, Seat(p) = Seat(q)
  PROVE  p = q
<1>1. p = <<b, p[2]>> /\ q = <<b, q[2]>> /\ p[2] \in DOMAIN r /\ q[2] \in DOMAIN r
  OBVIOUS
<1>2. p[2] = q[2]
  <2>1. CASE b \in Folding
    BY <1>1, <2>1 DEF Seat, Exportable, IsInjective, Restrict
  <2>2. CASE b \notin Folding
    BY <1>1, <2>2 DEF Seat
  <2>3. QED
    BY <2>1, <2>2
<1>3. QED
  BY <1>1, <1>2

\* What an installation exports.
ExportsOf(t, b, r) == [path \in {b} \X DOMAIN r |-> [tree |-> t, file |-> r[path[2]]]]

LEMMA ExportsType ==
  ASSUME NEW t \in Tree, NEW b \in Bin, NEW r \in Release
  PROVE  /\ ExportsOf(t, b, r) \in Exports
         /\ DOMAIN ExportsOf(t, b, r) \subseteq Path
         /\ \A path \in DOMAIN ExportsOf(t, b, r) :
              /\ ExportsOf(t, b, r)[path] \in Command
              /\ ExportsOf(t, b, r)[path].tree = t /\ path[1] = b
              /\ ExportsOf(t, b, r)[path].file \in {r[n] : n \in DOMAIN r}
<1> DEFINE E == ExportsOf(t, b, r)
<1>1. DOMAIN E = {b} \X DOMAIN r /\ DOMAIN E \subseteq Path
  BY ReleaseAssumption DEF ExportsOf, Path
<1>2. \A path \in DOMAIN E :
        E[path] = [tree |-> t, file |-> r[path[2]]] /\ path[1] = b /\ path[2] \in DOMAIN r
  BY DEF ExportsOf
<1>3. \A path \in DOMAIN E : E[path] \in Command
  BY <1>2, ReleaseAssumption DEF Command
<1>4. E \in [DOMAIN E -> Command]
  BY <1>1, <1>3 DEF ExportsOf
<1>5. E \in Exports
  BY <1>1, <1>4 DEF Exports
<1>6. QED
  BY <1>1, <1>2, <1>3, <1>5

\* The exports of a receipt are commands at paths.
LEMMA ReceiptType ==
  ASSUME TypeOK, NEW o \in Owner
  PROVE  /\ DOMAIN Previous(o) \subseteq Path
         /\ \A path \in DOMAIN Previous(o) :
              /\ receipt[o] # Nothing /\ Previous(o) = receipt[o].exports
              /\ Previous(o)[path] \in Command
<1>1. CASE receipt[o] = Nothing
  <2>1. DOMAIN Previous(o) = {}
    BY <1>1 DEF Previous
  <2>2. QED
    BY <2>1
<1>2. CASE receipt[o] # Nothing
  <2>1. receipt[o].exports \in Exports /\ Previous(o) = receipt[o].exports
    BY <1>2 DEF TypeOK, Receipt, Previous
  <2>2. PICK S \in SUBSET Path : receipt[o].exports \in [S -> Command]
    BY <2>1 DEF Exports
  <2>3. QED
    BY <1>2, <2>1, <2>2
<1>3. QED
  BY <1>1, <1>2

\* A seat after a commit: published, removed or as it was.
LEMMA SeatAfter ==
  ASSUME NEW E, NEW D, NEW s \in Seats
  PROVE  LET now == Without(Published(E), D)[s]
         IN  \/ (\E path \in D : Seat(path) = s) /\ now = Nothing
             \/ /\ ~\E path \in D : Seat(path) = s
                /\ \E path \in DOMAIN E : Seat(path) = s /\ now = E[path]
             \/ /\ ~\E path \in D : Seat(path) = s
                /\ ~\E path \in DOMAIN E : Seat(path) = s
                /\ now = command[s]
<1>1. Without(Published(E), D)[s] =
        IF \E path \in D : Seat(path) = s THEN Nothing ELSE Published(E)[s]
  BY DEF Without
<1>2. Published(E)[s] = IF \E path \in DOMAIN E : Seat(path) = s
                          THEN E[CHOOSE path \in DOMAIN E : Seat(path) = s] ELSE command[s]
  BY DEF Published
<1>3. QED
  BY <1>1, <1>2

\* What an installation does, in terms of what it exports and removes.
LEMMA InstallDoes ==
  ASSUME NEW o \in Owner, NEW t \in Tree, NEW b \in Bin, NEW r \in Release,
         NEW force \in BOOLEAN, Install(o, t, b, r, force)
  PROVE  LET E == ExportsOf(t, b, r)
         IN  \E D \in SUBSET Stale(o, E) :
               /\ Replace(o, t, r, Without(Published(E), D), E)
               /\ \/ /\ D = Stale(o, E) /\ stuck' = stuck
                     /\ receipt' = [receipt EXCEPT ![o] = [tree |-> t, exports |-> E]]
                     /\ last' = [owner |-> o, force |-> force, recased |-> Recased(o, E)]
                  \/ /\ stuck' = stuck \cup Scopes(o, t, b) /\ receipt' = receipt
                     /\ last' = [owner |-> o, force |-> force, recased |-> {}]
<1> DEFINE E == ExportsOf(t, b, r)
<1>1. CASE Overtaken(o, E) = {}
  BY <1>1 DEF Install, ExportsOf
<1>2. CASE Overtaken(o, E) # {}
  <2>1. PICK D \in SUBSET (Stale(o, E) \ Overtaken(o, E)) :
          Replace(o, t, r, Without(Published(E), D), E)
    BY <1>2 DEF Install, ExportsOf
  <2>2. /\ stuck' = stuck \cup Scopes(o, t, b) /\ receipt' = receipt
        /\ last' = [owner |-> o, force |-> force, recased |-> {}]
    BY <1>2 DEF Install, ExportsOf
  <2>3. D \in SUBSET Stale(o, E)
    OBVIOUS
  <2>4. QED
    BY <2>1, <2>2, <2>3
<1>3. QED
  BY <1>1, <1>2

-----------------------------------------------------------------------------
(* The invariant.                                                          *)

LEMMA InitInv == Init => IInv
<1> SUFFICES ASSUME Init PROVE IInv
  OBVIOUS
<1>1. TypeOK
  BY BoundsAssumption DEF Init, TypeOK
<1>2. QED
  BY <1>1 DEF Init, IInv, LastTyped, Byhand, Hosted, Answered, Kept, CommandsTracked

\* The facts of one installation that the conjuncts of the invariant follow from.
LEMMA InstallInv ==
  ASSUME IInv, NEW o \in Owner, NEW t \in Tree, NEW b \in Bin, NEW r \in Release,
         NEW force \in BOOLEAN, Install(o, t, b, r, force)
  PROVE  IInv'
<1> DEFINE E == ExportsOf(t, b, r)
           new == [tree |-> t, exports |-> E]
           files == {r[n] : n \in DOMAIN r}
<1>1. PICK D \in SUBSET Stale(o, E) :
        /\ Replace(o, t, r, Without(Published(E), D), E)
        /\ \/ /\ D = Stale(o, E) /\ stuck' = stuck
              /\ receipt' = [receipt EXCEPT ![o] = new]
              /\ last' = [owner |-> o, force |-> force, recased |-> Recased(o, E)]
           \/ /\ stuck' = stuck \cup Scopes(o, t, b) /\ receipt' = receipt
              /\ last' = [owner |-> o, force |-> force, recased |-> {}]
  BY InstallDoes
<1>2. /\ tree' = [tree EXCEPT ![t] = [marker |-> o[2], files |-> files]]
      /\ command' = Without(Published(E), D)
      /\ placed' = Placed(o, command', E)
      /\ keeper' = [keeper EXCEPT ![t] = o]
      /\ hosted' = [hosted EXCEPT ![t] = @ \cup {o[2]}]
  BY <1>1 DEF Replace
<1>3. /\ E \in Exports /\ DOMAIN E \subseteq Path
      /\ \A path \in DOMAIN E : /\ E[path] \in Command /\ E[path].tree = t
                               /\ E[path].file \in files /\ path[1] = b
  BY ExportsType
<1>4. new \in Receipt /\ new # Nothing /\ new.exports = E
  BY <1>3, NothingAssumption DEF Receipt
<1>5. /\ D \subseteq Path
      /\ \A path \in D : path \in DOMAIN Previous(o) /\ path \notin DOMAIN E
  BY ReceiptType DEF Stale, IInv
<1> HIDE DEF E, new, files
<1>6. \A s \in Seats :
        \/ (\E path \in D : Seat(path) = s) /\ command'[s] = Nothing
        \/ /\ ~\E path \in D : Seat(path) = s
           /\ \E path \in DOMAIN E : Seat(path) = s /\ command'[s] = E[path]
        \/ /\ ~\E path \in D : Seat(path) = s
           /\ ~\E path \in DOMAIN E : Seat(path) = s
           /\ command'[s] = command[s]
  BY <1>2, SeatAfter
<1>7. \A s \in Seats :
        placed'[s] = IF command'[s] = Nothing THEN Nothing
                     ELSE IF \E path \in DOMAIN E : Seat(path) = s THEN o ELSE placed[s]
  BY <1>2 DEF Placed
<1>8. TypeOK'
  <2>1. tree' \in [Tree -> Marked \cup {Nothing, Alien}]
    <3>1. files \in SUBSET File
      BY ReleaseAssumption DEF files
    <3>2. [marker |-> o[2], files |-> files] \in Marked
      BY <3>1 DEF Marked, Project
    <3>3. QED
      BY <1>2, <3>2 DEF IInv, TypeOK
  <2>2. command' \in [Seats -> Command \cup {Nothing, Alien}]
    <3>1. \A s \in Seats : command'[s] \in Command \cup {Nothing, Alien}
      BY <1>3, <1>6 DEF IInv, TypeOK
    <3>2. command' = [s \in Seats |-> command'[s]]
      BY <1>2 DEF Without
    <3>3. QED
      BY <3>1, <3>2
  <2>3. receipt' \in [Owner -> Receipt \cup {Nothing}]
    BY <1>1, <1>4 DEF IInv, TypeOK
  <2>4. stuck' \subseteq State \cup Tree \cup Bin
    <3>1. \A path \in DOMAIN Previous(o) : path[1] \in Bin
      BY ReceiptType DEF IInv, Path
    <3>2. QED
      BY <1>1, <3>1 DEF IInv, TypeOK, Scopes, State
  <2>5. placed' \in [Seats -> Owner \cup {Nothing}]
    <3>1. \A s \in Seats : placed'[s] \in Owner \cup {Nothing}
      BY <1>7 DEF IInv, TypeOK
    <3>2. placed' = [s \in Seats |-> placed'[s]]
      BY <1>2 DEF Placed
    <3>3. QED
      BY <3>1, <3>2
  <2>6. keeper' \in [Tree -> Owner \cup {Nothing}] /\ hosted' \in [Tree -> SUBSET Project]
    BY <1>2 DEF IInv, TypeOK, Project
  <2>7. installs' \in 0..MaxInstalls /\ edits' \in 0..MaxEdits
    BY BoundsAssumption DEF Install, IInv, TypeOK
  <2>8. QED
    BY <2>1, <2>2, <2>3, <2>4, <2>5, <2>6, <2>7 DEF TypeOK
<1>9. LastTyped' /\ last'.owner = o
  BY <1>1 DEF LastTyped
<1>10. Hosted'
  <2> SUFFICES ASSUME NEW w \in Owner, receipt'[w] # Nothing,
                      NEW path \in DOMAIN receipt'[w].exports
               PROVE  w[2] \in hosted'[receipt'[w].exports[path].tree]
    BY DEF Hosted
  <2>1. CASE receipt'[w] = receipt[w]
    <3>1. receipt[w].exports[path].tree \in Tree
      BY <2>1, ReceiptType DEF IInv, Previous, Command
    <3>2. w[2] \in hosted[receipt[w].exports[path].tree]
      BY <2>1 DEF IInv, Hosted
    <3>3. QED
      BY <1>2, <2>1, <3>1, <3>2 DEF IInv, TypeOK
  <2>2. CASE w = o /\ receipt'[o] = new
    BY <1>2, <1>3, <1>4, <2>2 DEF IInv, TypeOK
  <2>3. QED
    BY <1>1, <2>1, <2>2 DEF IInv, TypeOK
<1>11. Answered'
  BY <1>6, <1>7, NothingAssumption DEF IInv, Answered
<1>12. Kept'
  BY <1>2, NothingAssumption DEF IInv, TypeOK, Kept
<1>13. CommandsTracked'
  <2>1. ASSUME NEW s \in Seats, placed'[s] # Nothing, s[1] \notin stuck'
        PROVE  /\ receipt'[placed'[s]] # Nothing
               /\ \E path \in DOMAIN receipt'[placed'[s]].exports :
                    /\ Seat(path) = s /\ receipt'[placed'[s]].exports[path] = command'[s]
               /\ keeper'[command'[s].tree] = placed'[s] =>
                    command'[s].file \in tree'[command'[s].tree].files
    <3>1. command'[s] # Nothing
      BY <1>7, <2>1
    <3>2. CASE \E path \in DOMAIN E : Seat(path) = s
      <4>1. PICK path \in DOMAIN E : Seat(path) = s /\ command'[s] = E[path]
        BY <1>6, <3>1, <3>2
      <4>2. placed'[s] = o
        BY <1>7, <3>1, <3>2
      <4>3. s[1] = b
        BY <1>3, <4>1, SeatType
      <4>4. receipt' = [receipt EXCEPT ![o] = new]
        BY <1>1, <2>1, <4>3 DEF Scopes
      <4>5. receipt'[o] = new
        BY <4>4 DEF IInv, TypeOK
      <4>6. tree'[t].files = files
        BY <1>2 DEF IInv, TypeOK
      <4>7. QED
        BY <1>3, <1>4, <4>1, <4>2, <4>5, <4>6
    <3>3. CASE ~\E path \in DOMAIN E : Seat(path) = s
      <4>1. /\ ~\E path \in D : Seat(path) = s
            /\ command'[s] = command[s] /\ placed'[s] = placed[s]
        BY <1>6, <1>7, <3>1, <3>3
      <4>2. s[1] \notin stuck
        BY <1>1, <2>1
      <4>3. /\ placed[s] \in Owner /\ receipt[placed[s]] # Nothing
            /\ \E path \in DOMAIN receipt[placed[s]].exports :
                 Seat(path) = s /\ receipt[placed[s]].exports[path] = command[s]
            /\ keeper[command[s].tree] = placed[s] =>
                 command[s].file \in tree[command[s].tree].files
        BY <2>1, <4>1, <4>2 DEF IInv, TypeOK, CommandsTracked
      <4>4. placed[s] # o
        <5> SUFFICES ASSUME placed[s] = o PROVE FALSE
          OBVIOUS
        <5>1. PICK path \in DOMAIN Previous(o) :
                Seat(path) = s /\ Previous(o)[path] = command[s]
          BY <4>3 DEF Previous
        <5>2. path \in Stale(o, E)
          BY <3>3, <5>1 DEF Stale
        <5>3. s[1] = path[1]
          BY <5>1, SeatType, ReceiptType DEF IInv
        <5>4. D = Stale(o, E) \/ s[1] \in stuck'
          BY <1>1, <5>1, <5>3 DEF Scopes
        <5>5. QED
          BY <2>1, <4>1, <5>1, <5>2, <5>4
      <4>5. receipt'[placed[s]] = receipt[placed[s]]
        BY <1>1, <4>3, <4>4 DEF IInv, TypeOK
      <4>6. command[s].tree \in Tree
        <5>1. PICK path \in DOMAIN receipt[placed[s]].exports :
                receipt[placed[s]].exports[path] = command[s]
          BY <4>3
        <5>2. command[s] \in Command
          BY <4>3, <5>1, ReceiptType DEF IInv, Previous
        <5>3. QED
          BY <5>2 DEF Command
      <4>7. keeper'[command[s].tree] = placed[s] =>
              /\ keeper[command[s].tree] = placed[s]
              /\ tree'[command[s].tree] = tree[command[s].tree]
        BY <1>2, <4>4, <4>6 DEF IInv, TypeOK
      <4>8. QED
        BY <4>1, <4>3, <4>5, <4>7
    <3>4. QED
      BY <3>2, <3>3
  <2>2. ASSUME o[1] \notin stuck', NEW path \in DOMAIN receipt'[o].exports \ last'.recased
        PROVE  command'[Seat(path)] = receipt'[o].exports[path]
    <3>1. /\ D = Stale(o, E) /\ receipt'[o].exports = E /\ last'.recased = Recased(o, E)
      BY <1>1, <1>4, <2>2 DEF Scopes, IInv, TypeOK
    <3>2. path \in DOMAIN E /\ path \notin Recased(o, E) /\ Seat(path) \in Seats
      BY <1>3, <2>2, <3>1, SeatType
    <3>3. ~\E p \in D : Seat(p) = Seat(path)
      BY <1>5, <3>2 DEF Recased
    <3>4. PICK p \in DOMAIN E : Seat(p) = Seat(path) /\ command'[Seat(path)] = E[p]
      BY <1>6, <3>2, <3>3
    <3>5. DOMAIN E = {b} \X DOMAIN r /\ Exportable(r)
      BY DEF E, ExportsOf, Install
    <3>6. p = path
      BY <3>2, <3>4, <3>5, OneSeatEach
    <3>7. QED
      BY <3>1, <3>4, <3>6
  <2>3. QED
    BY <1>9, <2>1, <2>2 DEF CommandsTracked
<1>14. QED
  BY <1>8, <1>9, <1>10, <1>11, <1>12, <1>13 DEF IInv

LEMMA EditCommandInv ==
  ASSUME IInv, NEW s \in Seats, NEW entry \in {Nothing, Alien}, EditCommand(s, entry)
  PROVE  IInv'
<1>1. /\ command' = [command EXCEPT ![s] = entry] /\ placed' = [placed EXCEPT ![s] = Nothing]
      /\ last' = Byhand /\ edits' = edits + 1 /\ edits < MaxEdits
      /\ UNCHANGED <<tree, receipt, stuck, keeper, hosted, installs>>
  BY DEF EditCommand
<1>2. TypeOK'
  BY <1>1, BoundsAssumption DEF IInv, TypeOK
<1>3. LastTyped' /\ Hosted' /\ Answered' /\ Kept'
  BY <1>1 DEF IInv, TypeOK, LastTyped, Byhand, Hosted, Answered, Kept
<1>4. CommandsTracked'
  BY <1>1 DEF IInv, TypeOK, CommandsTracked, Byhand
<1>5. QED
  BY <1>2, <1>3, <1>4 DEF IInv

LEMMA EditTreeInv ==
  ASSUME IInv, NEW t \in Tree, NEW entry \in {Nothing, Alien}, EditTree(t, entry)
  PROVE  IInv'
<1>1. /\ tree' = [tree EXCEPT ![t] = entry] /\ keeper' = [keeper EXCEPT ![t] = Nothing]
      /\ last' = Byhand /\ edits' = edits + 1 /\ edits < MaxEdits
      /\ UNCHANGED <<command, receipt, stuck, placed, hosted, installs>>
  BY DEF EditTree
<1>2. TypeOK'
  BY <1>1, BoundsAssumption DEF IInv, TypeOK
<1>3. LastTyped' /\ Hosted' /\ Answered' /\ Kept'
  BY <1>1 DEF IInv, TypeOK, LastTyped, Byhand, Hosted, Answered, Kept
<1>4. CommandsTracked'
  <2> SUFFICES ASSUME NEW s \in Seats, placed[s] # Nothing, s[1] \notin stuck
               PROVE  /\ receipt[placed[s]] # Nothing
                      /\ \E path \in DOMAIN receipt[placed[s]].exports :
                           /\ Seat(path) = s
                           /\ receipt[placed[s]].exports[path] = command[s]
                      /\ keeper'[command[s].tree] = placed[s] =>
                           command[s].file \in tree'[command[s].tree].files
    BY <1>1 DEF CommandsTracked, Byhand
  <2>1. /\ receipt[placed[s]] # Nothing /\ placed[s] \in Owner
        /\ \E path \in DOMAIN receipt[placed[s]].exports :
             Seat(path) = s /\ receipt[placed[s]].exports[path] = command[s]
        /\ keeper[command[s].tree] = placed[s] =>
             command[s].file \in tree[command[s].tree].files
    BY DEF IInv, TypeOK, CommandsTracked
  <2>2. command[s] \in Command
    BY <2>1, ReceiptType DEF IInv, Previous
  <2>3. keeper'[command[s].tree] = placed[s] => command[s].tree # t
    BY <1>1, <2>1, NothingAssumption DEF IInv, TypeOK
  <2>4. QED
    BY <1>1, <2>1, <2>2, <2>3 DEF IInv, TypeOK, Command
<1>5. QED
  BY <1>2, <1>3, <1>4 DEF IInv

THEOREM Invariance == Spec => []IInv
<1>1. IInv /\ UNCHANGED vars => IInv'
  BY DEF IInv, TypeOK, LastTyped, Hosted, Answered, Kept, CommandsTracked, vars, disk, told
<1>2. IInv /\ [Next]_vars => IInv'
  BY <1>1, InstallInv, EditCommandInv, EditTreeInv DEF Next
<1>3. QED
  BY <1>2, InitInv, PTL DEF Spec

-----------------------------------------------------------------------------
(* The properties.                                                         *)

\* Every command that packslip placed is in the receipt of whoever placed it,
\* whatever the projects and the user did since.
THEOREM EveryCommandIsTracked == Spec => []CommandsTracked
BY Invariance, PTL DEF IInv

\* Without --force an install replaces or removes no command and no tree that
\* another project or the user put there.
THEOREM OthersStayUntouched == Spec => OthersUntouched
<1> DEFINE Untouched ==
      LET o == last'.owner
      IN o # Nothing /\ ~last'.force =>
           /\ \A s \in Seats :
                command[s] \notin {Nothing, command'[s]} =>
                  /\ command[s] # Alien
                  /\ placed[s] # Nothing
                  /\ placed[s][2] = o[2] \/ o[2] \in hosted[command[s].tree]
           /\ \A t \in Tree :
                tree[t] \notin {Nothing, tree'[t]} =>
                  tree[t] # Alien /\ keeper[t] # Nothing /\ keeper[t][2] = o[2]
<1>1. ASSUME IInv, NEW o \in Owner, NEW t \in Tree, NEW b \in Bin, NEW r \in Release,
             NEW force \in BOOLEAN, Install(o, t, b, r, force)
      PROVE  Untouched
  <2> DEFINE E == ExportsOf(t, b, r)
  <2>1. PICK D \in SUBSET Stale(o, E) :
          /\ Replace(o, t, r, Without(Published(E), D), E)
          /\ last'.owner = o /\ last'.force = force
    BY <1>1, InstallDoes
  <2>2. ~force => TreeOwned(o, t) /\ \A path \in DOMAIN E : CommandOwned(o, path)
    BY <1>1 DEF Install, ExportsOf
  <2>3. command' = Without(Published(E), D)
    BY <2>1 DEF Replace
  <2> HIDE DEF E
  <2>4. ASSUME ~force, NEW s \in Seats, command[s] \notin {Nothing, command'[s]}
        PROVE  /\ command[s] # Alien /\ placed[s] # Nothing
               /\ o[2] \in hosted[command[s].tree]
    <3>1. PICK path : /\ path \in D \/ path \in DOMAIN E
                      /\ Seat(path) = s
      BY <2>3, <2>4, SeatAfter
    <3>2. path \in DOMAIN Previous(o) /\ command[s] = Previous(o)[path]
      BY <2>2, <2>4, <3>1 DEF Stale, CommandOwned
    <3>3. command[s] \in Command /\ receipt[o] # Nothing /\ Previous(o) = receipt[o].exports
      BY <1>1, <3>2, ReceiptType DEF IInv
    <3>4. QED
      BY <1>1, <3>2, <3>3, NothingAssumption DEF IInv, Hosted, Answered
  <2>5. ASSUME ~force, NEW u \in Tree, tree[u] \notin {Nothing, tree'[u]}
        PROVE  tree[u] # Alien /\ keeper[u] # Nothing /\ keeper[u][2] = o[2]
    <3>1. u = t
      BY <1>1, <2>1, <2>5 DEF Replace, IInv, TypeOK
    <3>2. tree[u] # Alien /\ tree[u].marker = o[2]
      BY <2>2, <2>5, <3>1 DEF TreeOwned
    <3>3. QED
      BY <1>1, <2>5, <3>2 DEF IInv, Kept
  <2>6. QED
    BY <2>1, <2>4, <2>5
<1>2. ASSUME IInv, last' = Byhand PROVE Untouched
  BY <1>2 DEF Byhand
<1>3. IInv /\ [Next]_vars => (Untouched \/ UNCHANGED vars)
  BY <1>1, <1>2 DEF Next, EditCommand, EditTree
<1>4. QED
  BY <1>3, Invariance, PTL DEF Spec, OthersUntouched
=============================================================================
