---------------------------- MODULE FileStoreProofs ----------------------------
(****************************************************************************)
(* FileStore never answers with less than it acknowledged, and so keeps the *)
(* promise of ReceiptStore, whatever the receipts, the writers and the      *)
(* faults.                                                                  *)
(****************************************************************************)
EXTENDS FileStore, TLAPS

\* What the lines of a file hold, and whether List's decoder takes them all.
Holds(lines) == {lines[i].holds : i \in DOMAIN lines}
Intact(lines) == \A i \in DOMAIN lines : lines[i].holds \in Receipts \ Oversized

\* The page cache still tells what was synced, unless it lost it to a line that
\* no decoder takes.
Kept ==
  /\ Len(durable) <= Len(file)
  /\ \A i \in 1..Len(durable) :
        file[i].holds = durable[i].holds \/ file[i].holds \notin Receipts

SyncedTold == Intact(durable) => acked \subseteq Holds(durable)

WrittenTold == \A w \in Writers : written[w] /\ Intact(file) => pending[w] \in Holds(file)

StoreInv == TypeOK /\ Kept /\ SyncedTold /\ WrittenTold

\* A piece goes behind the last line, or spoils it.
LEMMA WrittenLines ==
  ASSUME NEW lines \in Seq(Line), NEW x \in Receipts \cup {Garbled}, NEW e \in BOOLEAN
  PROVE  LET after == Written(lines, Piece(x, e))
         IN  /\ after \in Seq(Line)
             /\ \/ after = Append(lines, Piece(x, e))
                \/ /\ lines # <<>> /\ Len(after) = Len(lines)
                   /\ after[Len(lines)].holds = Garbled
                   /\ \A i \in 1..Len(lines) : i # Len(lines) => after[i] = lines[i]
<1>1. Piece(x, e) \in Line /\ Piece(Garbled, e) \in Line
  BY DEF Piece, Line
<1>2. Piece(x, e).ended = e /\ Piece(Garbled, e).holds = Garbled
  BY DEF Piece
<1>3. CASE lines = <<>> \/ lines[Len(lines)].ended
  BY <1>1, <1>3 DEF Written
<1>4. CASE lines # <<>> /\ ~lines[Len(lines)].ended
  <2>1. Len(lines) \in 1..Len(lines)
    BY <1>4
  <2> QED BY <1>1, <1>2, <1>4, <2>1 DEF Written
<1> QED BY <1>3, <1>4

\* What a written piece does to a file that tells things.
LEMMA WrittenKeeps ==
  ASSUME StoreInv, NEW x \in Receipts \cup {Garbled}, NEW e \in BOOLEAN,
         file' = Written(file, Piece(x, e)), durable' = durable
  PROVE  /\ file' \in Seq(Line)
         /\ Kept'
         /\ Intact(file') => /\ Intact(file)
                             /\ file' = Append(file, Piece(x, e))
                             /\ Holds(file) \subseteq Holds(file')
                             /\ x \in Holds(file')
<1>1. file \in Seq(Line) /\ durable \in Seq(Line)
  BY DEF StoreInv, TypeOK
<1>2. Garbled \notin Receipts
  BY FileStoreAssumption
<1>3. CASE file' = Append(file, Piece(x, e))
  <2>1. /\ file' \in Seq(Line) /\ Len(file') = Len(file) + 1
        /\ \A i \in 1..Len(file) : file'[i] = file[i]
        /\ file'[Len(file) + 1].holds = x
    BY <1>1, <1>3, WrittenLines DEF Piece
  <2>2. Kept'
    BY <1>1, <2>1 DEF StoreInv, Kept
  <2>3. Holds(file) \subseteq Holds(file') /\ x \in Holds(file')
    BY <1>1, <2>1 DEF Holds
  <2>4. Intact(file') => Intact(file)
    BY <1>1, <2>1 DEF Intact
  <2> QED BY <1>3, <2>1, <2>2, <2>3, <2>4
<1>4. CASE file' # Append(file, Piece(x, e))
  <2>1. /\ file' \in Seq(Line) /\ file # <<>> /\ Len(file') = Len(file)
        /\ file'[Len(file)].holds = Garbled
        /\ \A i \in 1..Len(file) : i # Len(file) => file'[i] = file[i]
    BY <1>1, <1>4, WrittenLines
  <2>2. Kept'
    BY <1>1, <1>2, <2>1 DEF StoreInv, Kept
  <2>3. ~Intact(file')
    BY <1>1, <1>2, <2>1 DEF Intact
  <2> QED BY <2>1, <2>2, <2>3
<1> QED BY <1>3, <1>4

\* An Append that ended is waiting for nothing.
LEMMA LeaveKeeps ==
  ASSUME StoreInv, NEW w \in Writers, Leave(w)
  PROVE  /\ pending' \in [Writers -> Receipts \cup {None}]
         /\ written' \in [Writers -> BOOLEAN]
         /\ \A v \in Writers : written'[v] => written[v] /\ pending'[v] = pending[v]
         /\ \A v \in Writers : written'[v] => pending'[v] # None
BY DEF StoreInv, TypeOK, Leave

\* The journal file as a reader finds it tells all that was acknowledged.
LEMMA FileTells ==
  ASSUME StoreInv, Intact(file)
  PROVE  /\ Intact(durable)
         /\ \A i \in 1..Len(durable) : file[i].holds = durable[i].holds
         /\ acked \subseteq Holds(file)
<1>1. file \in Seq(Line) /\ durable \in Seq(Line)
  BY DEF StoreInv, TypeOK
<1>2. \A i \in 1..Len(durable) : file[i].holds = durable[i].holds
  BY <1>1 DEF StoreInv, Kept, Intact
<1>3. Intact(durable)
  BY <1>1, <1>2 DEF StoreInv, Kept, Intact
<1>4. Holds(durable) \subseteq Holds(file)
  BY <1>1, <1>2 DEF StoreInv, Kept, Holds
<1> QED BY <1>2, <1>3, <1>4 DEF StoreInv, SyncedTold

LEMMA IntactIsReadable == Readable <=> Intact(file)
BY DEF Readable, Intact

LEMMA ListTellsHolds == Range(Listed) = Holds(file)
BY DEF Range, Listed, Holds

\* A file that begins with the synced lines and decodes tells what was acknowledged.
LEMMA BeginningTells ==
  ASSUME StoreInv, NEW left \in Seq(Line), Intact(left), Len(durable) <= Len(left),
         \A i \in 1..Len(durable) : left[i] = file[i]
  PROVE  acked \subseteq Holds(left)
<1>1. file \in Seq(Line) /\ durable \in Seq(Line)
  BY DEF StoreInv, TypeOK
<1>2. \A i \in 1..Len(durable) : i \in DOMAIN left /\ i \in DOMAIN durable
  BY <1>1
<1>3. \A i \in 1..Len(durable) : left[i].holds = durable[i].holds
  BY <1>2 DEF StoreInv, Kept, Intact
<1>4. DOMAIN durable = 1..Len(durable)
  BY <1>1
<1>5. Intact(durable) /\ Holds(durable) \subseteq Holds(left)
  BY <1>2, <1>3, <1>4 DEF Intact, Holds
<1> QED BY <1>5 DEF StoreInv, SyncedTold

LEMMA AppendLine ==
  ASSUME NEW lines \in Seq(Line), NEW line \in Line
  PROVE  /\ Append(lines, line) \in Seq(Line) /\ Len(Append(lines, line)) = Len(lines) + 1
         /\ Append(lines, line)[Len(lines) + 1] = line
         /\ \A i \in 1..Len(lines) : Append(lines, line)[i] = lines[i]
OBVIOUS

\* What a power loss leaves: some of the lines, the last perhaps spoilt; if all
\* of it decodes, it is a beginning of the file, with all that was synced.
LEMMA SurvivalLines ==
  ASSUME StoreInv, NEW left \in Survivals
  PROVE  /\ left \in Seq(Line)
         /\ Intact(left) => acked \subseteq Holds(left)
         /\ Intact(left) /\ Intact(file) =>
              /\ Len(left) <= Len(file)
              /\ \A i \in 1..Len(left) : left[i].holds = file[i].holds
<1>1. /\ file \in Seq(Line) /\ durable \in Seq(Line) /\ Len(durable) <= Len(file)
      /\ Len(file) \in Nat /\ Len(durable) \in Nat
  BY DEF StoreInv, TypeOK, Kept
<1>2. Garbled \notin Receipts
  BY FileStoreAssumption
<1>3. CASE left = durable
  BY <1>1, <1>3, FileTells DEF StoreInv, SyncedTold
<1>4. ASSUME NEW k \in Len(durable)..Len(file)
      PROVE  /\ SubSeq(file, 1, k) \in Seq(Line) /\ Len(SubSeq(file, 1, k)) = k /\ k \in Nat
             /\ \A i \in 1..k : SubSeq(file, 1, k)[i] = file[i]
  <2>1. k \in Nat /\ k <= Len(file)
    BY <1>1
  <2>2. \A i \in 1..k : file[i] \in Line
    BY <1>1, <2>1
  <2> QED BY <1>1, <2>1, <2>2
<1>5. ASSUME NEW k \in Len(durable)..Len(file), left = SubSeq(file, 1, k)
      PROVE  /\ left \in Seq(Line) /\ Len(left) = k /\ Len(durable) <= k /\ k <= Len(file)
             /\ \A i \in 1..k : left[i] = file[i]
  BY <1>1, <1>4, <1>5
<1>6. ASSUME NEW k \in Len(durable)..Len(file), k # Len(file),
             NEW x \in {Garbled, file[k + 1].holds},
             left = Append(SubSeq(file, 1, k), Piece(x, FALSE))
      PROVE  /\ left \in Seq(Line) /\ Len(left) = k + 1 /\ Len(durable) <= k /\ k + 1 <= Len(file)
             /\ \A i \in 1..k : left[i] = file[i]
             /\ left[k + 1].holds = x /\ k \in Nat
  <2>1. k \in Nat /\ k + 1 \in 1..Len(file) /\ Len(durable) <= k
    BY <1>1, <1>6
  <2>2. file[k + 1] \in Line
    BY <1>1, <2>1
  <2>3. x \in Receipts \cup {Garbled}
    BY <2>2 DEF Line
  <2>4. Piece(x, FALSE) \in Line /\ Piece(x, FALSE).holds = x
    BY <2>3 DEF Piece, Line
  <2> DEFINE begin == SubSeq(file, 1, k)
  <2>5. begin \in Seq(Line) /\ Len(begin) = k /\ \A i \in 1..k : begin[i] = file[i]
    BY <1>4
  <2>6. left = Append(begin, Piece(x, FALSE))
    BY <1>6
  <2> HIDE DEF begin
  <2>7. /\ left \in Seq(Line) /\ Len(left) = k + 1
        /\ left[k + 1] = Piece(x, FALSE)
        /\ \A i \in 1..k : left[i] = begin[i]
    BY <2>4, <2>5, <2>6, AppendLine
  <2>8. \A i \in 1..k : left[i] = file[i]
    BY <2>5, <2>7
  <2>9. left[k + 1].holds = x
    BY <2>4, <2>7
  <2>10. Len(durable) <= k /\ k + 1 <= Len(file) /\ k \in Nat
    BY <1>1, <2>1
  <2> QED BY <2>7, <2>8, <2>9, <2>10
<1>7. CASE \E k \in Len(durable)..Len(file) : left = SubSeq(file, 1, k)
  <2>1. PICK k \in Len(durable)..Len(file) : left = SubSeq(file, 1, k)
    BY <1>7
  <2>2. /\ left \in Seq(Line) /\ Len(left) = k /\ Len(durable) <= k /\ k <= Len(file)
        /\ \A i \in 1..k : left[i] = file[i]
    BY <1>5, <2>1
  <2>3. Intact(left) => acked \subseteq Holds(left)
    BY <1>1, <2>2, BeginningTells
  <2> QED BY <2>2, <2>3
<1>8. CASE \E k \in Len(durable)..Len(file) :
             /\ k # Len(file)
             /\ \E x \in {Garbled, file[k + 1].holds} : left = Append(SubSeq(file, 1, k), Piece(x, FALSE))
  <2>0. PICK k \in Len(durable)..Len(file) :
             /\ k # Len(file)
             /\ \E x \in {Garbled, file[k + 1].holds} : left = Append(SubSeq(file, 1, k), Piece(x, FALSE))
    BY <1>8
  <2>1. PICK x \in {Garbled, file[k + 1].holds} : left = Append(SubSeq(file, 1, k), Piece(x, FALSE))
    BY <2>0
  <2>2. /\ left \in Seq(Line) /\ Len(left) = k + 1 /\ Len(durable) <= k /\ k + 1 <= Len(file)
        /\ \A i \in 1..k : left[i] = file[i]
        /\ left[k + 1].holds = x /\ k \in Nat
    BY <1>6, <2>0, <2>1
  <2>3. Intact(left) => acked \subseteq Holds(left)
    BY <1>1, <2>2, BeginningTells
  <2>4. k + 1 \in DOMAIN left
    BY <2>2
  <2>5. Intact(left) => x = file[k + 1].holds
    BY <1>2, <2>1, <2>2, <2>4 DEF Intact
  <2> QED BY <2>2, <2>3, <2>5
<1>9. \/ left = durable
      \/ \E k \in Len(durable)..Len(file) : left = SubSeq(file, 1, k)
      \/ \E k \in Len(durable)..Len(file) :
             /\ k # Len(file)
             /\ \E x \in {Garbled, file[k + 1].holds} : left = Append(SubSeq(file, 1, k), Piece(x, FALSE))
  BY DEF Survivals
<1> QED BY <1>3, <1>7, <1>8, <1>9
-----------------------------------------------------------------------------
LEMMA InitStoreInv == Init => StoreInv
BY FileStoreAssumption DEF Init, StoreInv, TypeOK, Kept, SyncedTold, WrittenTold, Intact, Holds, Line

\* A step keeps what the file tells; one proof step per action.
THEOREM StepStoreInv == StoreInv /\ [Next]_vars => StoreInv'
<1> SUFFICES ASSUME StoreInv, [Next]_vars PROVE StoreInv'
  OBVIOUS
<1>1. CASE UNCHANGED vars
  BY <1>1 DEF vars, StoreInv, TypeOK, Kept, SyncedTold, WrittenTold, Intact, Holds
<1>2. ASSUME NEW w \in Writers, NEW r \in Receipts, Open(w, r) PROVE StoreInv'
  <2>1. TypeOK'
    BY <1>2, FileStoreAssumption DEF Open, StoreInv, TypeOK
  <2>2. \A v \in Writers : written'[v] => pending'[v] = pending[v]
    BY <1>2 DEF Open, StoreInv, TypeOK
  <2>3. WrittenTold'
    BY <1>2, <2>2 DEF Open, StoreInv, WrittenTold, Intact, Holds
  <2> QED BY <1>2, <2>1, <2>3 DEF Open, StoreInv, Kept, SyncedTold
<1>3. ASSUME NEW w \in Writers, Write(w) PROVE StoreInv'
  <2>1. pending[w] \in Receipts
    BY <1>3 DEF Write, StoreInv, TypeOK
  <2>2. /\ file' \in Seq(Line) /\ Kept'
        /\ Intact(file') => Intact(file) /\ Holds(file) \subseteq Holds(file') /\ pending[w] \in Holds(file')
    BY <1>3, <2>1, WrittenKeeps DEF Write
  <2>3. TypeOK'
    BY <1>3, <2>2 DEF Write, StoreInv, TypeOK
  <2>4. \A v \in Writers : written'[v] => v = w \/ written[v]
    BY <1>3 DEF Write, StoreInv, TypeOK
  <2>5. WrittenTold'
    BY <1>3, <2>2, <2>4 DEF Write, StoreInv, WrittenTold
  <2> QED BY <1>3, <2>2, <2>3, <2>5 DEF Write, StoreInv, SyncedTold
<1>4. ASSUME NEW w \in Writers, WriteShort(w) PROVE StoreInv'
  <2>1. pending[w] \in Receipts /\ faults' \in 0..MaxFaults
    BY <1>4, FileStoreAssumption DEF WriteShort, Fault, StoreInv, TypeOK
  <2>2. /\ file' \in Seq(Line) /\ Kept'
        /\ Intact(file') => Intact(file) /\ Holds(file) \subseteq Holds(file')
    <3>1. CASE file' = file
      BY <1>4, <3>1 DEF WriteShort, StoreInv, TypeOK, Kept
    <3>2. CASE file' # file
      <4>1. PICK x \in {Garbled, pending[w]} : file' = Written(file, Piece(x, FALSE))
        BY <1>4, <3>2 DEF WriteShort
      <4> QED BY <1>4, <2>1, <4>1, WrittenKeeps DEF WriteShort
    <3> QED BY <3>1, <3>2
  <2>3. TypeOK'
    BY <1>4, <2>1, <2>2, LeaveKeeps DEF WriteShort, StoreInv, TypeOK
  <2>4. WrittenTold'
    BY <1>4, <2>2, LeaveKeeps DEF WriteShort, StoreInv, WrittenTold
  <2> QED BY <1>4, <2>2, <2>3, <2>4 DEF WriteShort, StoreInv, SyncedTold
<1>5. ASSUME NEW w \in Writers, Sync(w) PROVE StoreInv'
  <2>1. pending[w] \in Receipts
    BY <1>5 DEF Sync, StoreInv, TypeOK
  <2>2. TypeOK'
    BY <1>5, <2>1, LeaveKeeps DEF Sync, StoreInv, TypeOK
  <2>3. Kept'
    BY <1>5 DEF Sync, StoreInv, TypeOK, Kept
  <2>4. SyncedTold'
    BY <1>5, FileTells DEF Sync, StoreInv, WrittenTold, SyncedTold
  <2>5. WrittenTold'
    BY <1>5, LeaveKeeps DEF Sync, StoreInv, WrittenTold
  <2> QED BY <2>2, <2>3, <2>4, <2>5 DEF StoreInv
<1>6. ASSUME NEW w \in Writers, SyncFails(w) \/ Kill(w) PROVE StoreInv'
  <2>1. Leave(w) /\ UNCHANGED <<file, durable, acked>> /\ faults' \in 0..MaxFaults
    BY <1>6, FileStoreAssumption DEF SyncFails, Kill, Fault, StoreInv, TypeOK
  <2>2. TypeOK'
    BY <2>1, LeaveKeeps DEF StoreInv, TypeOK
  <2>3. WrittenTold'
    BY <2>1, LeaveKeeps DEF StoreInv, WrittenTold
  <2> QED BY <2>1, <2>2, <2>3 DEF StoreInv, Kept, SyncedTold
<1>7. CASE PowerLoss
  <2>1. file' \in Seq(Line) /\ (Intact(file') => acked \subseteq Holds(file'))
    BY <1>7, SurvivalLines DEF PowerLoss
  <2>2. TypeOK'
    BY <1>7, <2>1, FileStoreAssumption DEF PowerLoss, Fault, StoreInv, TypeOK
  <2> QED BY <1>7, <2>1, <2>2 DEF PowerLoss, StoreInv, Kept, SyncedTold, WrittenTold
<1> QED BY <1>1, <1>2, <1>3, <1>4, <1>5, <1>6, <1>7 DEF Next

\* The journal's state is well typed, and a write waiting for its sync has its
\* receipt.
THEOREM StoreTyping == Spec => []TypeOK
<1>1. StoreInv => TypeOK
  BY DEF StoreInv
<1> QED BY <1>1, InitStoreInv, StepStoreInv, PTL DEF Spec

\* Whatever is killed, cut short or lost with the power, a List that answers
\* tells every receipt Append acknowledged.
THEOREM NeverLess == Spec => []FailsClosed
<1>1. StoreInv => FailsClosed
  BY FileTells, IntactIsReadable, ListTellsHolds DEF FailsClosed
<1> QED BY <1>1, InitStoreInv, StepStoreInv, PTL DEF Spec
-----------------------------------------------------------------------------
\* A step in the store's vocabulary, what the caller is told apart.
Answers == [Store!Next]_<<List, acked>>

\* What List says of a file.
ListSays ==
  /\ ~Intact(file) => List = Unreadable
  /\ Intact(file) => /\ List # Unreadable /\ List \in Seq(Receipts)
                     /\ Len(List) = Len(file)
                     /\ \A i \in 1..Len(file) : List[i] = file[i].holds
                     /\ Range(List) = Holds(file)

LEMMA ListIs == StoreInv => ListSays
<1> SUFFICES ASSUME StoreInv PROVE ListSays
  OBVIOUS
<1>1. file \in Seq(Line)
  BY DEF StoreInv, TypeOK
<1>2. CASE ~Intact(file)
  BY <1>2, IntactIsReadable DEF List, ListSays
<1>3. CASE Intact(file)
  <2>1. List = Listed
    BY <1>3, IntactIsReadable DEF List
  <2>2. /\ DOMAIN file = 1..Len(file) /\ Len(file) \in Nat
        /\ \A i \in 1..Len(file) : file[i].holds \in Receipts
    BY <1>1, <1>3 DEF Intact
  <2>3. Listed = [i \in 1..Len(file) |-> file[i].holds]
    BY <2>2 DEF Listed
  <2>4. Listed \in Seq(Receipts) /\ Len(Listed) = Len(file)
    BY <2>2, <2>3
  <2>5. Listed # Unreadable
    BY <2>4, FileStoreAssumption
  <2> QED BY <1>3, <2>1, <2>3, <2>4, <2>5, ListTellsHolds DEF ListSays
<1> QED BY <1>2, <1>3

LEMMA ListIsNext == StoreInv' => ListSays'
BY ListIs, PTL

\* A write adds a receipt or damages the file.
LEMMA WrittenAnswers ==
  ASSUME StoreInv, StoreInv', NEW x \in Receipts \cup {Garbled}, NEW e \in BOOLEAN,
         file' = Written(file, Piece(x, e)), durable' = durable, acked' = acked
  PROVE  Answers
<1>1. Intact(file') => Intact(file) /\ file' = Append(file, Piece(x, e))
  BY WrittenKeeps
<1>2. CASE ~Intact(file')
  <2>1. List' = Unreadable
    BY <1>2, ListIsNext DEF ListSays
  <2> QED BY <2>1 DEF Answers, Store!Next, Store!Damage
<1>3. CASE Intact(file')
  <2>1. file \in Seq(Line) /\ Piece(x, e) \in Line /\ Piece(x, e).holds = x
    BY DEF StoreInv, TypeOK, Piece, Line
  <2>2. /\ Len(file') = Len(file) + 1 /\ file'[Len(file) + 1].holds = x /\ Len(file) \in Nat
        /\ \A i \in 1..Len(file) : file'[i] = file[i]
    BY <1>1, <1>3, <2>1, AppendLine
  <2>3. x \in Receipts
    BY <1>3, <2>1, <2>2 DEF StoreInv, TypeOK, Intact
  <2>4. /\ List # Unreadable /\ List \in Seq(Receipts) /\ Len(List) = Len(file)
        /\ \A i \in 1..Len(file) : List[i] = file[i].holds
    BY <1>1, <1>3, ListIs DEF ListSays
  <2>5. /\ List' \in Seq(Receipts) /\ Len(List') = Len(file')
        /\ \A i \in 1..Len(file') : List'[i] = file'[i].holds
    BY <1>3, ListIsNext DEF ListSays
  <2>6. \A i \in 1..Len(List') : List'[i] = Append(List, x)[i]
    BY <2>2, <2>3, <2>4, <2>5
  <2>7. List' = Append(List, x)
    BY <2>2, <2>3, <2>4, <2>5, <2>6
  <2> QED BY <2>3, <2>4, <2>7 DEF Answers, Store!Next, Store!Add
<1> QED BY <1>2, <1>3

\* Every step of the file is a step of the store, or none.
THEOREM StepAnswers == StoreInv /\ StoreInv' /\ [Next]_vars => Answers
<1> SUFFICES ASSUME StoreInv, StoreInv', [Next]_vars PROVE Answers
  OBVIOUS
<1>1. ASSUME file' = file, acked' = acked PROVE Answers
  BY <1>1 DEF Answers, List, Readable, Listed
<1>2. CASE UNCHANGED vars
  BY <1>1, <1>2 DEF vars
<1>3. ASSUME NEW w \in Writers, NEW r \in Receipts, Open(w, r) PROVE Answers
  BY <1>1, <1>3 DEF Open
<1>4. ASSUME NEW w \in Writers, Write(w) PROVE Answers
  <2>1. pending[w] \in Receipts
    BY <1>4 DEF Write, StoreInv, TypeOK
  <2> QED BY <1>4, <2>1, WrittenAnswers DEF Write
<1>5. ASSUME NEW w \in Writers, WriteShort(w) PROVE Answers
  <2>1. pending[w] \in Receipts
    BY <1>5 DEF WriteShort, StoreInv, TypeOK
  <2>2. CASE file' = file
    BY <1>1, <1>5, <2>2 DEF WriteShort
  <2>3. CASE file' # file
    <3>1. PICK x \in {Garbled, pending[w]} : file' = Written(file, Piece(x, FALSE))
      BY <1>5, <2>3 DEF WriteShort
    <3> QED BY <1>5, <2>1, <3>1, WrittenAnswers DEF WriteShort
  <2> QED BY <2>2, <2>3
<1>6. ASSUME NEW w \in Writers, Sync(w) PROVE Answers
  <2>1. pending[w] \in Receipts
    BY <1>6 DEF Sync, StoreInv, TypeOK
  <2>2. List' = List
    BY <1>6 DEF Sync, List, Readable, Listed
  <2>3. List = Unreadable \/ pending[w] \in Range(List)
    BY <1>6, ListIs DEF ListSays, Sync, StoreInv, WrittenTold
  <2> QED BY <1>6, <2>1, <2>2, <2>3 DEF Sync, Answers, Store!Next, Store!Acknowledge, Store!Range, Range
<1>7. ASSUME NEW w \in Writers, SyncFails(w) \/ Kill(w) PROVE Answers
  BY <1>1, <1>7 DEF SyncFails, Kill
<1>8. CASE PowerLoss
  <2>1. acked' = acked /\ file' \in Survivals
    BY <1>8 DEF PowerLoss
  <2>2. CASE ~Intact(file')
    <3>1. List' = Unreadable
      BY <2>2, ListIsNext DEF ListSays
    <3> QED BY <2>1, <3>1 DEF Answers, Store!Next, Store!Damage
  <2>3. CASE Intact(file') /\ ~Intact(file)
    <3>1. List = Unreadable
      BY <2>3, ListIs DEF ListSays
    <3>2. List' \in Seq(Receipts) /\ Range(List') = Holds(file')
      BY <2>3, ListIsNext DEF ListSays
    <3>3. acked \subseteq Range(List')
      BY <2>1, <2>3, <3>2, SurvivalLines
    <3> QED BY <2>1, <3>1, <3>2, <3>3 DEF Answers, Store!Next, Store!Recover, Store!Tells, Store!Range, Range
  <2>4. CASE Intact(file') /\ Intact(file)
    <3>1. /\ List # Unreadable /\ List \in Seq(Receipts) /\ Len(List) = Len(file)
          /\ \A i \in 1..Len(file) : List[i] = file[i].holds
      BY <2>4, ListIs DEF ListSays
    <3>2. /\ List' \in Seq(Receipts) /\ Len(List') = Len(file') /\ Range(List') = Holds(file')
          /\ \A i \in 1..Len(file') : List'[i] = file'[i].holds
      BY <2>4, ListIsNext DEF ListSays
    <3>3. /\ Len(file') <= Len(file) /\ acked \subseteq Range(List')
          /\ \A i \in 1..Len(file') : file'[i].holds = file[i].holds
      BY <2>1, <2>4, <3>2, SurvivalLines
    <3>4. Len(List') \in 0..Len(List)
      BY <3>1, <3>2, <3>3
    <3>5. \A i \in 1..Len(List') : List'[i] = List[i]
      BY <3>1, <3>2, <3>3, <3>4
    <3>6. List' = SubSeq(List, 1, Len(List'))
      BY <3>1, <3>2, <3>4, <3>5
    <3> QED BY <2>1, <3>1, <3>3, <3>4, <3>6 DEF Answers, Store!Next, Store!Forget, Store!Tells,
                                               Store!Range, Range
  <2> QED BY <2>2, <2>3, <2>4
<1> QED BY <1>2, <1>3, <1>4, <1>5, <1>6, <1>7, <1>8 DEF Next

\* FileStore keeps the promise the reconciler relies on.
THEOREM KeepsPromise == Spec => ImplementsStore
<1>1. Init => Store!Init
  BY DEF Init, Store!Init, List, Readable, Listed
<1>2. StoreInv /\ StoreInv' /\ [Next]_vars => [Store!Next]_<<List, acked>>
  BY StepAnswers DEF Answers
<1> QED BY <1>1, <1>2, InitStoreInv, StepStoreInv, PTL DEF Spec, ImplementsStore, Store!Spec
================================================================================
