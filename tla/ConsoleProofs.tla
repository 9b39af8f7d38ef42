--------------------------- MODULE ConsoleProofs ----------------------------
(***************************************************************************)
(* The macOS console and the target together, for any NVMe identities,     *)
(* tokens, runs, probes and faults: what the console types is typed whole, *)
(* no marker it waits for is overlooked, what is confirmed was just        *)
(* reported, and the whole implements Promise.                             *)
(***************************************************************************)
EXTENDS ConsoleProvisioning, TargetProofs, WellFoundedInduction

-----------------------------------------------------------------------------
(* Lines and their pieces *)

Lines == {Command(k, t, NoInventory) : k \in {"ready", "preflight", "install"},
          t \in Tokens}
           \cup {Command("install", t, d) : t \in Tokens, d \in Disks}

CommandPieces == [line : Lines, last : BOOLEAN]
MarkerPieces  == [line : Markers, last : BOOLEAN]

\* A set of natural numbers has a least element.
LEMMA Least ==
    ASSUME NEW S \in SUBSET Nat, S # {}
    PROVE  Min(S) \in S /\ \A y \in S : Min(S) <= y
<1>1. PICK x \in S : \A y \in S : ~(<<y, x>> \in OpToRel(<, Nat))
  BY NatLessThanWellFounded, WFMin
<1>2. \A y \in S : ~(y < x)
  BY <1>1 DEF OpToRel
<1>3. x \in Nat /\ \A y \in S : y \in Nat
  OBVIOUS
<1>4. \A y \in S : x <= y
  BY <1>2, <1>3
<1> QED
  BY <1>4 DEF Min

\* A line is the piece before its newline and the one with it.
LEMMA Positions ==
    ASSUME NEW lines, NEW i \in Nat
    PROVE  /\ PieceAt(lines, 2 * i) = [line |-> lines[i], last |-> TRUE]
           /\ i > 0 => PieceAt(lines, 2 * i - 1) = [line |-> lines[i], last |-> FALSE]
<1>1. PieceAt(lines, 2 * i) = [line |-> lines[i], last |-> TRUE]
  <2>1. (2 * i + 1) \div 2 = i /\ 2 - ((2 * i) % 2) = 2
    OBVIOUS
  <2>2. PieceAt(lines, 2 * i) = Pieces(lines[i])[2]
    BY <2>1 DEF PieceAt
  <2> QED
    BY <2>2 DEF Pieces
<1>2. ASSUME i > 0 PROVE PieceAt(lines, 2 * i - 1) = [line |-> lines[i], last |-> FALSE]
  <2>1. (2 * i - 1 + 1) \div 2 = i /\ 2 - ((2 * i - 1) % 2) = 1
    BY <1>2
  <2>2. PieceAt(lines, 2 * i - 1) = Pieces(lines[i])[1]
    BY <2>1 DEF PieceAt
  <2> QED
    BY <2>2 DEF Pieces
<1> QED
  BY <1>1, <1>2

\* Every position is in a line, as its first or its last piece.
LEMMA Positioned ==
    ASSUME NEW n \in Nat, NEW q \in 1..(2 * n)
    PROVE  \E i \in 1..n : q = 2 * i \/ q = 2 * i - 1
<1>1. (q + 1) \div 2 \in 1..n
  OBVIOUS
<1>2. q = 2 * ((q + 1) \div 2) \/ q = 2 * ((q + 1) \div 2) - 1
  OBVIOUS
<1> QED
  BY <1>1, <1>2

LEMMA PrintedPieces ==
    ASSUME out \in Seq(Markers), NEW q \in 1..(2 * Len(out))
    PROVE  /\ PieceAt(out, q) \in MarkerPieces
           /\ \E i \in 1..Len(out) : PieceAt(out, q).line = out[i]
<1>0. Len(out) \in Nat
  OBVIOUS
<1>1. PICK i \in 1..Len(out) : q = 2 * i \/ q = 2 * i - 1
  BY <1>0, Positioned
<1>2. i \in Nat /\ i > 0 /\ out[i] \in Markers
  BY <1>0, <1>1
<1>3. PICK b \in BOOLEAN : PieceAt(out, q) = [line |-> out[i], last |-> b]
  <2>1. CASE q = 2 * i
    BY <1>2, <2>1, Positions
  <2>2. CASE q = 2 * i - 1
    BY <1>2, <2>2, Positions
  <2> QED
    BY <1>1, <2>1, <2>2
<1>4. [line |-> out[i], last |-> b] \in MarkerPieces
  BY <1>2 DEF MarkerPieces
<1> QED
  BY <1>3, <1>4

\* What Scan returns when it finds a line, and when it does not.
LEMMA ScanFinds ==
    ASSUME NEW pieces \in Seq(MarkerPieces), Scan(pieces).found # Nothing
    PROVE  /\ Scan(pieces).line = <<>>
           /\ \E j \in 1..Len(pieces) : /\ Scan(pieces).found = pieces[j].line
                                        /\ Awaited(pieces[j].line)
<1> DEFINE wanted == {j \in 1..Len(pieces) : EndsLine(pieces, j) /\ Awaited(pieces[j].line)}
<1>1. wanted # {}
  BY DEF Scan
<1>2. wanted \in SUBSET Nat
  OBVIOUS
<1>3. Min(wanted) \in wanted
  <2> HIDE DEF wanted
  <2> QED
    BY <1>1, <1>2, Least
<1>4. Scan(pieces) = [line |-> <<>>, found |-> pieces[Min(wanted)].line]
  BY <1>1 DEF Scan
<1>5. PICK j \in wanted : j = Min(wanted)
  BY <1>3
<1>6. Scan(pieces) = [line |-> <<>>, found |-> pieces[j].line]
  BY <1>4, <1>5
<1>7. j \in 1..Len(pieces) /\ Awaited(pieces[j].line)
  BY <1>5
<1> QED
  BY <1>6, <1>7

LEMMA ScanMisses ==
    ASSUME NEW pieces \in Seq(MarkerPieces), Scan(pieces).found = Nothing
    PROVE  /\ \A j \in 1..Len(pieces) : EndsLine(pieces, j) => ~Awaited(pieces[j].line)
           /\ \E n \in 0..Len(pieces) :
                /\ Scan(pieces).line = SubSeq(pieces, n + 1, Len(pieces))
                /\ \A j \in (n + 1)..Len(pieces) : ~pieces[j].last
                /\ n > 0 => pieces[n].last
<1> DEFINE wanted == {j \in 1..Len(pieces) : EndsLine(pieces, j) /\ Awaited(pieces[j].line)}
           taken  == {n \in 0..Len(pieces) : \A j \in (n + 1)..Len(pieces) :
                      ~pieces[j].last}
<1>0. Len(pieces) \in Nat
  OBVIOUS
<1>1. wanted = {}
  <2> SUFFICES ASSUME wanted # {} PROVE FALSE
    OBVIOUS
  <2>0. wanted \in SUBSET Nat
    OBVIOUS
  <2>1. Min(wanted) \in wanted
    <3> HIDE DEF wanted
    <3> QED
      BY <2>0, Least
  <2>2. Scan(pieces) = [line |-> <<>>, found |-> pieces[Min(wanted)].line]
    BY DEF Scan
  <2>3. pieces[Min(wanted)] \in MarkerPieces
    <3>1. \A j \in wanted : pieces[j] \in MarkerPieces
      OBVIOUS
    <3> HIDE DEF wanted
    <3> QED
      BY <2>1, <3>1
  <2>4. Nothing \notin Markers
    BY DEF Nothing, Markers
  <2> QED
    BY <2>2, <2>3, <2>4 DEF MarkerPieces
<1>2. Len(pieces) \in taken /\ taken \in SUBSET Nat
  BY <1>0
<1>3. Min(taken) \in taken /\ \A y \in taken : Min(taken) <= y
  <2> HIDE DEF taken
  <2> QED
    BY <1>2, Least
<1>4. Scan(pieces) =
        [line |-> SubSeq(pieces, Min(taken) + 1, Len(pieces)), found |-> Nothing]
  BY <1>1 DEF Scan
<1> DEFINE n == Min(taken)
<1> HIDE DEF n
<1>5. /\ n \in 0..Len(pieces) /\ \A j \in (n + 1)..Len(pieces) : ~pieces[j].last
      /\ \A y \in taken : n <= y
      /\ Scan(pieces).line = SubSeq(pieces, n + 1, Len(pieces))
  <2>1. n \in taken /\ \A y \in taken : n <= y
    BY <1>3 DEF n
  <2>2. PICK k \in taken : k = Min(taken)
    BY <1>3
  <2>3. Scan(pieces) = [line |-> SubSeq(pieces, k + 1, Len(pieces)), found |-> Nothing]
    BY <1>4, <2>2
  <2>4. n = k
    BY <2>2 DEF n
  <2> QED
    BY <2>1, <2>3, <2>4
<1>6. ASSUME n > 0 PROVE pieces[n].last
  <2>1. n - 1 \in 0..Len(pieces) /\ n - 1 \notin taken
    <3>1. n \in Nat /\ n - 1 \in 0..Len(pieces) /\ ~(n <= n - 1)
      BY <1>0, <1>5, <1>6
    <3> HIDE DEF taken
    <3> QED
      BY <1>5, <3>1
  <2>2. PICK j \in ((n - 1) + 1)..Len(pieces) : pieces[j].last
    BY <2>1
  <2>3. j = n
    BY <1>0, <1>5, <2>2
  <2> QED
    BY <2>2, <2>3
<1> QED
  BY <1>1, <1>5, <1>6

-----------------------------------------------------------------------------
(* The console's invariant *)

HostTypes ==
    /\ guided \in BOOLEAN
    /\ phase \in Phases
    /\ verdict \in {"none", "safe", "unknown", "complete"}
    /\ doubt \in BOOLEAN
    /\ issued \subseteq Tokens
    /\ phase # "idle" => token \in issued
    /\ inventory \in Disks \cup {NoInventory}
    /\ unsent \in Seq(CommandPieces)
    /\ typed \in Seq(CommandPieces)
    /\ pos \in 0..(2 * Len(out))

\* The command a phase begins with.
Begins == IF phase = "probing" THEN "ready" ELSE phase

\* What is still to be written is the rest of the command of the phase.
UnsentInv ==
    unsent # <<>> =>
        /\ phase \in {"probing", "preflight", "install"}
        /\ \E c \in Lines : /\ c.kind = Begins
                            /\ c.session = token
                            /\ unsent \in {Pieces(c), <<[line |-> c, last |-> TRUE]>>}

\* A whole command of this run's token lies in the terminal.
Carried(k) ==
    typed[k].last /\ typed[k].line.kind # "ready" /\ typed[k].line.session = token

\* The run's token starts no script before its command is written, and the
\* install command is the last thing written.
TokenInv ==
    /\ used \subseteq issued
    /\ \A k \in 1..Len(typed) : typed[k].line.session \in issued
    /\ phase \in {"modem", "probing"}
       \/ (phase \in {"preflight", "install"} /\ unsent # <<>>)
         => token \notin used /\ \A k \in 1..Len(typed) : ~Carried(k)
    /\ phase = "install" /\ unsent = <<>>
         => /\ \A k \in 1..Len(typed) : Carried(k) => k = Len(typed)
            /\ token \in used => typed = <<>> /\ cmd.session = token

\* While a marker is awaited the buffer holds the line being read, if not from
\* its start, then one that is not awaited.
BufferInv ==
    (Waiting /\ phase # "probing") =>
        /\ \/ buffer = <<>>
           \/ pos % 2 = 1 /\ buffer = <<PieceAt(out, pos)>>
        /\ pos % 2 = 1 /\ buffer = <<>> => ~Awaited(PieceAt(out, pos).line)

\* As long as no run of the console ended in doubt, an install command is that
\* of the run under way, and without one nothing was written.
JobInv ==
    (~doubt /\ verdict # "complete") =>
        /\ \A k \in 1..Len(typed) : typed[k].line.kind = "install" =>
              phase = "install" /\ typed[k].line.session = token
        /\ cmd.kind = "install" =>
              phase = "install" /\ cmd.session = token /\ before = "factory"
        /\ cmd.kind # "install" =>
              qspi = "factory" /\ \A d \in Disks : layout[d] = "foreign"

\* After a success nothing is left that could start another run.
VerdictInv ==
    verdict = "complete" => phase = "idle" /\ typed = <<>> /\ Claimed

IInv == /\ HostTypes /\ UnsentInv /\ TokenInv /\ BufferInv /\ JobInv /\ VerdictInv
        /\ NothingHalfTyped /\ NoMarkerMissed /\ ConfirmationIsFresh
        /\ TargetInv /\ SuccessInv

-----------------------------------------------------------------------------
(* Lines in the terminal *)

LEMMA LineTypes ==
    ASSUME NEW c \in Lines
    PROVE  /\ Pieces(c) \in Seq(CommandPieces)
           /\ Pieces(c) = <<[line |-> c, last |-> FALSE], [line |-> c, last |-> TRUE]>>
           /\ c.session \in Tokens
           /\ c.kind # "ready" => \A a \in BOOLEAN : [c EXCEPT !.accepted = a] \in Commands
<1>1. /\ [line |-> c, last |-> FALSE] \in CommandPieces
      /\ [line |-> c, last |-> TRUE] \in CommandPieces
  BY DEF CommandPieces
<1>2. c.session \in Tokens
  BY DEF Lines, Command
<1>3. c.kind # "ready" => \A a \in BOOLEAN : [c EXCEPT !.accepted = a] \in Commands
  BY DEF Lines, Command, Commands
<1> QED
  BY <1>1, <1>2, <1>3 DEF Pieces

LEMMA Joined ==
    ASSUME NEW S, NEW s \in Seq(S), NEW t \in Seq(S)
    PROVE  /\ s \o t \in Seq(S)
           /\ Len(s \o t) = Len(s) + Len(t)
           /\ \A k \in 1..Len(s) : (s \o t)[k] = s[k]
           /\ \A k \in 1..Len(t) : (s \o t)[Len(s) + k] = t[k]
<1>0. Len(s) \in Nat /\ Len(t) \in Nat
  OBVIOUS
<1> QED
  BY <1>0

\* One element before a sequence.
LEMMA Prefixed ==
    ASSUME NEW S, NEW x \in S, NEW t \in Seq(S)
    PROVE  /\ <<x>> \o t \in Seq(S)
           /\ Len(<<x>> \o t) = 1 + Len(t)
           /\ (<<x>> \o t)[1] = x
           /\ \A k \in 1..Len(t) : (<<x>> \o t)[1 + k] = t[k]
<1>0. Len(t) \in Nat
  OBVIOUS
<1>1. <<x>> \o t \in Seq(S)
  BY <1>0
<1>2. Len(<<x>> \o t) = 1 + Len(t)
  BY <1>0
<1>3. (<<x>> \o t)[1] = x
  BY <1>0
<1>4. \A k \in 1..Len(t) : (<<x>> \o t)[1 + k] = t[k]
  BY <1>0
<1> QED
  BY <1>1, <1>2, <1>3, <1>4

LEMMA Single ==
    ASSUME NEW S, NEW s \in Seq(S), Len(s) = 1
    PROVE  s = <<s[1]>>
OBVIOUS

LEMMA Pair ==
    ASSUME NEW S, NEW s \in Seq(S), NEW t \in Seq(S), Len(s) = 2, Len(t) = 2,
           s[1] = t[1], s[2] = t[2]
    PROVE  s = t
<1>1. s \in [1..2 -> S] /\ t \in [1..2 -> S]
  OBVIOUS
<1>2. \A i \in 1..2 : s[i] = t[i]
  OBVIOUS
<1> QED
  BY <1>1, <1>2

\* What is left of a sequence when its first m elements are gone.
LEMMA Rest ==
    ASSUME NEW S, NEW s \in Seq(S), NEW m \in 0..Len(s)
    PROVE  /\ SubSeq(s, m + 1, Len(s)) \in Seq(S)
           /\ Len(SubSeq(s, m + 1, Len(s))) = Len(s) - m
           /\ \A k \in 1..(Len(s) - m) :
                /\ SubSeq(s, m + 1, Len(s))[k] = s[k + m]
                /\ k + m \in 1..Len(s)
<1>0. Len(s) \in Nat /\ m \in Nat
  OBVIOUS
<1> QED
  BY <1>0

\* The shell takes a line that ends with a newline: it starts a run, answers a
\* probe, or does nothing.
LEMMA LineTaken ==
    ASSUME typed \in Seq(CommandPieces), ShellReads
    PROVE  \E m \in 1..Len(typed) :
             /\ typed[m].last
             /\ typed' = SubSeq(typed, m + 1, Len(typed))
             /\ \/ UNCHANGED target
                \/ Echo
                \/ \E c \in Commands : /\ Start(c)
                                       /\ typed[m].line.kind # "ready"
                                       /\ c.kind = typed[m].line.kind
                                       /\ c.session = typed[m].line.session
<1> DEFINE ends == {n \in 1..Len(typed) : typed[n].last}
<1>0. Len(typed) \in Nat
  OBVIOUS
<1>1. ends # {} /\ ends \in SUBSET Nat
  BY DEF ShellReads
<1>2. Min(ends) \in ends
  <2> HIDE DEF ends
  <2> QED
    BY <1>1, Least
<1>3. PICK m \in ends : m = Min(ends)
  BY <1>2
<1>4. m \in 1..Len(typed) /\ typed[m].last /\ m \in Nat
  BY <1>0, <1>3
<1>5. FirstLine = SubSeq(typed, 1, m)
  BY <1>3 DEF FirstLine
<1>6. Len(FirstLine) = m /\ Last(FirstLine) = typed[m]
  <2>1. Len(FirstLine) = m /\ FirstLine[m] = typed[m]
    BY <1>0, <1>4, <1>5
  <2> QED
    BY <2>1 DEF Last
<1>7. typed' = SubSeq(typed, m + 1, Len(typed))
  BY <1>6 DEF ShellReads
<1>8. typed[m].line \in Lines
  <2>1. typed[m] \in CommandPieces
    BY <1>4
  <2> QED
    BY <2>1 DEF CommandPieces
<1> DEFINE c == typed[m].line
           clean == ~quoted /\ FirstLine = Pieces(c)
<1>9. CASE clean /\ c.kind # "ready"
  <2>1. PICK a \in BOOLEAN : Start([c EXCEPT !.accepted = a])
    BY <1>6, <1>9 DEF ShellReads
  <2> DEFINE d == [c EXCEPT !.accepted = a]
  <2>2. d \in Commands /\ d.kind = c.kind /\ d.session = c.session
    BY <1>8, <1>9, LineTypes DEF Lines, Command
  <2>3. Start(d)
    BY <2>1
  <2> QED
    BY <1>4, <1>7, <1>9, <2>2, <2>3
<1>10. CASE clean /\ c.kind = "ready"
  <2>1. /\ out' = Append(out, Marker("ready", c.session))
        /\ UNCHANGED <<pc, run, succeeded, pending, flags, mounts, slot, store, ram, qspi,
                       tty>>
    BY <1>6, <1>10 DEF ShellReads
  <2>2. c.session \in Tokens
    BY <1>8, LineTypes
  <2>3. Echo
    BY <2>1, <2>2 DEF Echo
  <2> QED
    BY <1>4, <1>7, <2>3
<1>11. CASE ~clean
  BY <1>4, <1>6, <1>7, <1>11 DEF ShellReads
<1> QED
  BY <1>9, <1>10, <1>11

-----------------------------------------------------------------------------
(* Reading *)

Chunk(n) == [i \in 1..n |-> PieceAt(out, pos + i)]

\* The buffer and what is read after it are consecutive pieces of the output.
LEMMA Consecutive ==
    ASSUME HostTypes, BufferInv, out \in Seq(Markers), Waiting, phase # "probing",
           NEW n \in 1..(2 * Len(out) - pos)
    PROVE  /\ buffer \o Chunk(n) \in Seq(MarkerPieces)
           /\ Len(buffer) \in {0, 1} /\ Len(buffer) <= pos
           /\ Len(buffer) = 1 => pos % 2 = 1
           /\ Len(buffer \o Chunk(n)) = Len(buffer) + n
           /\ \A j \in 1..(Len(buffer) + n) :
                /\ (pos - Len(buffer)) + j \in 1..(2 * Len(out))
                /\ (buffer \o Chunk(n))[j] = PieceAt(out, (pos - Len(buffer)) + j)
<1>0. pos \in Nat /\ n \in Nat /\ Len(out) \in Nat /\ pos + n <= 2 * Len(out) /\ n > 0
  BY DEF HostTypes
<1>1. \A q \in 1..(2 * Len(out)) : PieceAt(out, q) \in MarkerPieces
  BY PrintedPieces
<1>2. Chunk(n) \in Seq(MarkerPieces) /\ Len(Chunk(n)) = n
  <2>1. \A i \in 1..n : pos + i \in 1..(2 * Len(out))
    BY <1>0
  <2>2. Chunk(n) \in [1..n -> MarkerPieces]
    BY <1>1, <2>1 DEF Chunk
  <2> QED
    BY <1>0, <2>2
<1>3. CASE buffer = <<>>
  <2>1. buffer \o Chunk(n) = Chunk(n) /\ Len(buffer) = 0
    BY <1>2, <1>3
  <2>2. \A j \in 1..n : pos + j \in 1..(2 * Len(out)) /\ Chunk(n)[j] = PieceAt(out, pos + j)
    BY <1>0 DEF Chunk
  <2> QED
    BY <1>0, <1>2, <2>1, <2>2
<1>4. CASE buffer # <<>>
  <2>1. pos % 2 = 1 /\ buffer = <<PieceAt(out, pos)>>
    BY <1>4 DEF BufferInv
  <2>2. pos \in 1..(2 * Len(out))
    BY <1>0, <2>1
  <2>3. buffer \in Seq(MarkerPieces) /\ Len(buffer) = 1 /\ buffer[1] = PieceAt(out, pos)
    BY <1>1, <2>1, <2>2
  <2>4. /\ buffer \o Chunk(n) \in Seq(MarkerPieces) /\ Len(buffer \o Chunk(n)) = 1 + n
        /\ (buffer \o Chunk(n))[1] = buffer[1]
        /\ \A k \in 1..n : (buffer \o Chunk(n))[1 + k] = Chunk(n)[k]
    <3>1. PieceAt(out, pos) \in MarkerPieces
      BY <1>1, <2>2
    <3>2. /\ <<PieceAt(out, pos)>> \o Chunk(n) \in Seq(MarkerPieces)
          /\ Len(<<PieceAt(out, pos)>> \o Chunk(n)) = 1 + Len(Chunk(n))
          /\ (<<PieceAt(out, pos)>> \o Chunk(n))[1] = PieceAt(out, pos)
          /\ \A k \in 1..Len(Chunk(n)) :
                (<<PieceAt(out, pos)>> \o Chunk(n))[1 + k] = Chunk(n)[k]
      BY ONLY <1>2, <3>1, Prefixed
    <3> QED
      BY ONLY <1>2, <2>1, <2>3, <3>2, Zenon
  <2>5. ASSUME NEW j \in 1..(1 + n)
        PROVE  /\ (pos - 1) + j \in 1..(2 * Len(out))
               /\ (buffer \o Chunk(n))[j] = PieceAt(out, (pos - 1) + j)
    <3>1. CASE j = 1
      <4>1. (buffer \o Chunk(n))[j] = buffer[1] /\ (pos - 1) + j = pos
        BY <1>0, <2>4, <3>1
      <4> QED
        BY <2>2, <2>3, <4>1
    <3>2. CASE j # 1
      <4>1. j - 1 \in 1..n /\ (pos - 1) + j = pos + (j - 1)
        BY <1>0, <3>2
      <4>2. (buffer \o Chunk(n))[j] = Chunk(n)[j - 1]
        <5>1. j = 1 + (j - 1)
          OBVIOUS
        <5> QED
          BY <2>4, <4>1, <5>1
      <4>3. Chunk(n)[j - 1] = PieceAt(out, pos + (j - 1))
        BY <4>1 DEF Chunk
      <4> QED
        BY <1>0, <4>1, <4>2, <4>3
    <3> QED
      BY <3>1, <3>2
  <2> QED
    BY <1>0, <2>1, <2>2, <2>3, <2>4, <2>5
<1> QED
  BY <1>3, <1>4

\* A line that is found was printed.
LEMMA FoundIsPrinted ==
    ASSUME HostTypes, BufferInv, out \in Seq(Markers), Waiting, phase # "probing",
           NEW n \in 1..(2 * Len(out) - pos),
           Scan(buffer \o Chunk(n)).found # Nothing
    PROVE  \E i \in 1..Len(out) : /\ Scan(buffer \o Chunk(n)).found = out[i]
                                  /\ Awaited(out[i])
<1> DEFINE pieces == buffer \o Chunk(n)
<1>1. pieces \in Seq(MarkerPieces) /\ Len(pieces) = Len(buffer) + n
  BY Consecutive
<1>2. PICK j \in 1..Len(pieces) : Scan(pieces).found = pieces[j].line
           /\ Awaited(pieces[j].line)
  BY <1>1, ScanFinds
<1>3. /\ (pos - Len(buffer)) + j \in 1..(2 * Len(out))
      /\ pieces[j] = PieceAt(out, (pos - Len(buffer)) + j)
  BY <1>1, Consecutive
<1>4. PICK i \in 1..Len(out) : PieceAt(out, (pos - Len(buffer)) + j).line = out[i]
  BY <1>3, PrintedPieces
<1>5. pieces[j].line = out[i]
  BY <1>3, <1>4
<1> QED
  BY <1>2, <1>5

\* What a read that finds nothing leaves behind.
LEMMA BufferAfter ==
    ASSUME HostTypes, BufferInv, out \in Seq(Markers), Waiting, phase # "probing",
           NEW n \in 1..(2 * Len(out) - pos),
           Scan(buffer \o Chunk(n)).found = Nothing
    PROVE  IF (pos + n) % 2 = 1
           THEN Scan(buffer \o Chunk(n)).line = <<PieceAt(out, pos + n)>>
                                ELSE Scan(buffer \o Chunk(n)).line = <<>>
<1> DEFINE pieces == buffer \o Chunk(n)
           base   == pos - Len(buffer)
           L      == Len(buffer) + n
<1>0. /\ pos \in Nat /\ n \in Nat /\ n > 0 /\ Len(out) \in Nat
      /\ Len(buffer) \in {0, 1} /\ Len(buffer) <= pos
  BY Consecutive DEF HostTypes
<1>1. /\ pieces \in Seq(MarkerPieces) /\ Len(pieces) = L
      /\ L \in Nat /\ L > 0 /\ base \in Nat /\ base + L = pos + n
  BY <1>0, Consecutive
<1>2. \A j \in 1..L : base + j \in 1..(2 * Len(out)) /\ pieces[j] = PieceAt(out, base + j)
  BY Consecutive
<1> HIDE DEF pieces, base, L
<1>3. PICK m \in 0..L : /\ Scan(pieces).line = SubSeq(pieces, m + 1, L)
                        /\ \A j \in (m + 1)..L : ~pieces[j].last
                        /\ m > 0 => pieces[m].last
  <2>1. Scan(pieces).found = Nothing
    BY DEF pieces
  <2> QED
    BY <1>1, <2>1, ScanMisses
<1>4. \A j \in 1..L : pieces[j].last <=> (base + j) % 2 = 0
  <2> SUFFICES ASSUME NEW j \in 1..L PROVE pieces[j].last <=> (base + j) % 2 = 0
    OBVIOUS
  <2>1. PICK i \in 1..Len(out) : base + j = 2 * i \/ base + j = 2 * i - 1
    BY <1>0, <1>2, Positioned
  <2>2. CASE base + j = 2 * i
    <3>0. i \in Nat
      BY <1>0
    <3>1. PieceAt(out, 2 * i) = [line |-> out[i], last |-> TRUE]
      BY <3>0, Positions
    <3>2. pieces[j].last
      BY <1>2, <2>2, <3>1
    <3> QED
      BY <2>2, <3>0, <3>2
  <2>3. CASE base + j = 2 * i - 1
    <3>0. i \in Nat /\ i > 0
      BY <1>0
    <3>1. PieceAt(out, 2 * i - 1) = [line |-> out[i], last |-> FALSE]
      BY <3>0, Positions
    <3>2. (2 * i - 1) % 2 = 1
      BY <3>0
    <3>3. ~pieces[j].last
      BY <1>2, <2>3, <3>1
    <3> QED
      BY <2>3, <3>2, <3>3
  <2> QED
    BY <2>1, <2>2, <2>3
<1>5. CASE (pos + n) % 2 = 0
  <2>1. pieces[L].last
    BY <1>1, <1>4, <1>5
  <2>2. m = L
    BY <1>1, <1>3, <2>1
  <2>3. SubSeq(pieces, m + 1, L) = <<>>
    BY <1>1, <2>2
  <2> QED
    BY <1>3, <1>5, <2>3 DEF pieces
<1>6. CASE (pos + n) % 2 = 1
  <2>1. ~pieces[L].last
    BY <1>1, <1>4, <1>6
  <2>2. m = L - 1
    <3>1. m # L
      BY <1>1, <1>3, <2>1
    <3>2. CASE L = 1
      BY <1>1, <3>1, <3>2
    <3>3. CASE L > 1
      <4>1. L - 1 \in 1..L /\ (base + (L - 1)) % 2 = 0
        BY <1>1, <1>6, <3>3
      <4>2. pieces[L - 1].last
        BY <1>4, <4>1
      <4> QED
        BY <1>1, <1>3, <3>1, <3>3, <4>2
    <3> QED
      BY <1>1, <3>2, <3>3
  <2>3. SubSeq(pieces, m + 1, L) = <<pieces[L]>>
    <3>1. 1 + m = L /\ m \in 0..L
      BY <1>1, <2>2
    <3>2. /\ SubSeq(pieces, m + 1, L) \in Seq(MarkerPieces)
          /\ Len(SubSeq(pieces, m + 1, L)) = 1
          /\ SubSeq(pieces, m + 1, L)[1] = pieces[L]
      BY <1>1, <2>2, <3>1, Rest
    <3> QED
      BY <3>2, Single
  <2>4. pieces[L] = PieceAt(out, pos + n)
    BY <1>1, <1>2
  <2> QED
    BY <1>3, <1>6, <2>3, <2>4 DEF pieces
<1> QED
  BY <1>0, <1>5, <1>6

\* A read that finds nothing has gone past no line that is wanted.
LEMMA NothingOverlooked ==
    ASSUME HostTypes, BufferInv, out \in Seq(Markers), Waiting, phase # "probing",
           NEW n \in 1..(2 * Len(out) - pos),
           Scan(buffer \o Chunk(n)).found = Nothing,
           NEW i \in 1..Len(out), Awaited(out[i]), pos < 2 * i
    PROVE  pos + n < 2 * i
<1> DEFINE pieces == buffer \o Chunk(n)
           base   == pos - Len(buffer)
           L      == Len(buffer) + n
<1>0. /\ pos \in Nat /\ n \in Nat /\ n > 0 /\ i \in Nat /\ i > 0
      /\ Len(buffer) \in {0, 1} /\ Len(buffer) <= pos
      /\ Len(buffer) = 1 => pos % 2 = 1
      /\ Len(out) \in Nat
  BY Consecutive DEF HostTypes
<1>1. /\ pieces \in Seq(MarkerPieces) /\ Len(pieces) = L
      /\ L \in Nat /\ base \in Nat /\ base + L = pos + n /\ base <= pos /\ pos <= base + 1
      /\ base # pos => pos % 2 = 1
  <2>1. pieces \in Seq(MarkerPieces) /\ Len(pieces) = L
    BY Consecutive
  <2>2. CASE Len(buffer) = 0
    BY <1>0, <2>1, <2>2
  <2>3. CASE Len(buffer) = 1
    BY <1>0, <2>1, <2>3
  <2> QED
    BY <1>0, <2>2, <2>3
<1>2. \A j \in 1..L : pieces[j] = PieceAt(out, base + j)
  BY Consecutive
<1>3. pos = 2 * i - 1 => base = pos - 1
  <2> SUFFICES ASSUME pos = 2 * i - 1, Len(buffer) = 0 PROVE FALSE
    BY <1>0
  <2>1. buffer = <<>> /\ pos % 2 = 1
    BY <1>0 DEF BufferInv
  <2>2. PieceAt(out, pos).line = out[i]
    <3>1. PieceAt(out, 2 * i - 1) = [line |-> out[i], last |-> FALSE]
      BY <1>0, Positions
    <3> QED
      BY <3>1
  <2> QED
    BY <2>1, <2>2 DEF BufferInv
<1>4. \A j \in 1..L : EndsLine(pieces, j) => ~Awaited(pieces[j].line)
  BY <1>1, ScanMisses
<1> HIDE DEF pieces, base, L
<1> SUFFICES ASSUME 2 * i <= pos + n PROVE FALSE
  BY <1>0
<1>5. /\ 2 * i - base \in 1..L /\ (2 * i - 1) - base \in 1..L
      /\ base + (2 * i - base) = 2 * i /\ base + ((2 * i - 1) - base) = 2 * i - 1
      /\ (2 * i - base) - 1 = (2 * i - 1) - base
      /\ 2 * i - base > 1
  BY <1>0, <1>1, <1>3
<1> DEFINE j == 2 * i - base
<1>6. /\ pieces[j] = [line |-> out[i], last |-> TRUE]
      /\ pieces[j - 1] = [line |-> out[i], last |-> FALSE]
  <2>1. pieces[j] = PieceAt(out, 2 * i)
    BY <1>2, <1>5
  <2>2. pieces[j - 1] = PieceAt(out, 2 * i - 1)
    <3>1. pieces[(2 * i - 1) - base] = PieceAt(out, 2 * i - 1)
      BY <1>2, <1>5
    <3> QED
      BY <1>5, <3>1
  <2> QED
    BY <1>0, <2>1, <2>2, Positions
<1>7. j > 2 => pieces[j - 2].last
  <2> SUFFICES ASSUME j > 2 PROVE pieces[j - 2].last
    OBVIOUS
  <2>1. j - 2 \in 1..L /\ base + (j - 2) = 2 * (i - 1) /\ i - 1 \in Nat
    BY <1>0, <1>1, <1>5
  <2>2. pieces[j - 2] = PieceAt(out, 2 * (i - 1))
    BY <1>2, <2>1
  <2>3. PieceAt(out, 2 * (i - 1)) = [line |-> out[i - 1], last |-> TRUE]
    BY <2>1, Positions
  <2> QED
    BY <2>2, <2>3
<1>8. EndsLine(pieces, j)
  BY <1>5, <1>6, <1>7 DEF EndsLine, Pieces
<1> QED
  BY <1>4, <1>5, <1>6, <1>8

-----------------------------------------------------------------------------
(* The target's side of a step *)

TargetAlone == (Scripts \/ Environment \/ UNCHANGED vars) /\ UNCHANGED consoleVars

LEMMA Steps ==
    ASSUME [CPNext]_allVars
    PROVE  HostSteps \/ TargetAlone \/ ShellReads \/ Unplug
BY DEF CPNext, TargetSteps, NewShell, allVars, target, vars, TargetAlone, Environment

\* What a step may do to the target: nothing, an answer to a probe, a run, or
\* a step of its own.
LEMMA TargetMoves ==
    ASSUME typed \in Seq(CommandPieces), [CPNext]_allVars
    PROVE  [Next]_vars \/ Echo
<1>1. UNCHANGED target => UNCHANGED vars
  BY DEF target, vars
<1>2. CASE HostSteps
  BY <1>1, <1>2 DEF HostSteps
<1>3. CASE TargetAlone
  BY <1>3 DEF TargetAlone, Next
<1>4. CASE ShellReads
  BY <1>1, <1>4, LineTaken DEF Next
<1>5. CASE Unplug
  BY <1>5 DEF Unplug, Next, Environment
<1> QED
  BY <1>2, <1>3, <1>4, <1>5, Steps

LEMMA TargetSide ==
    ASSUME typed \in Seq(CommandPieces), TargetInv, SuccessInv, [CPNext]_allVars
    PROVE  /\ TargetInv' /\ SuccessInv'
           /\ \A i \in 1..Len(out) : i \in 1..Len(out') /\ out'[i] = out[i]
           /\ Len(out) \in Nat /\ Len(out') \in Nat /\ Len(out) <= Len(out')
<1>1. TargetInv' /\ SuccessInv'
      /\ \A i \in 1..Len(out) : i \in 1..Len(out') /\ out'[i] = out[i]
  <2>1. CASE [Next]_vars
    BY <2>1, TargetNext, SuccessNext, OutGrows DEF TargetInv
  <2>2. CASE Echo
    BY <2>2, EchoMoves
  <2> QED
    BY <2>1, <2>2, TargetMoves
<1>2. Len(out) \in Nat /\ Len(out') \in Nat
  BY <1>1 DEF TargetInv, TypeOK
<1>3. Len(out) <= Len(out')
  BY <1>1, <1>2
<1> QED
  BY <1>1, <1>2, <1>3

\* Only a run that was started for an install writes.
LEMMA Harmless ==
    TypeOK /\ ConfirmInv /\ [Next]_vars /\ cmd.kind # "install"
    => UNCHANGED <<qspi, layout>>
<1> SUFFICES ASSUME TypeOK, ConfirmInv, [Next]_vars, cmd.kind # "install"
             PROVE  UNCHANGED <<qspi, layout>>
  OBVIOUS
<1>1. qspi' = qspi
  BY ConfirmNext DEF Permitted
<1>2. layout' = layout
  <2>1. ~(Partition \/ Format)
    BY DEF ConfirmInv, Partition, Format, At, Confirmed, InstallSteps, TrappedSteps
  <2> QED
    BY <2>1 DEF Next, vars, Scripts, Environment, Provision, Install, QspiInstall, Start,
       Guards, RunPreflight, ReportPreflight, ConfirmInventory, AnnounceInstall,
       MountNewRoot, CheckBackup, UnmountNewRoot, ReportSuccess, Finish, HonourTerm,
       CheckTarget, MountRoot, Extract, Configure, MountEsp, CopyLauncher, ResetSync,
       UmountEsp, UmountRoot, Unmount, InstallDone, InstallFails, CheckQspi, SaveBackup,
       RecordBackup, WarnErase, Erase, Program, AnnounceVerify, Readback, QspiDone,
       StepFails, TermProvision, TermFinish, TermInstaller, TermInstallerUntrapped, Hangup,
       RestartConsole, PowerLoss, Reboot, SwapDisk, store
<1> QED
  BY <1>1, <1>2

-----------------------------------------------------------------------------
(* The console's side of a step *)

LEMMA FreshToken ==
    ASSUME Tokens \ issued # {}
    PROVE  Fresh \in Tokens \ issued
BY DEF Fresh

\* The commands the console sends.
LEMMA Commanded ==
    ASSUME NEW t \in Tokens
    PROVE  /\ Command("ready", t, NoInventory) \in Lines
           /\ Command("preflight", t, NoInventory) \in Lines
           /\ \A d \in Disks \cup {NoInventory} : Command("install", t, d) \in Lines
           /\ \A k, d : Command(k, t, d).kind = k /\ Command(k, t, d).session = t
<1>1. \A k, d : Command(k, t, d).kind = k /\ Command(k, t, d).session = t
  BY DEF Command
<1>2. \A k \in {"ready", "preflight", "install"} : Command(k, t, NoInventory) \in Lines
  BY DEF Lines
<1>3. \A d \in Disks : Command("install", t, d) \in Lines
  BY DEF Lines
<1> QED
  BY <1>1, <1>2, <1>3

\* What the awaited marker leads to.
Follow(marker) ==
    CASE phase = "probing" -> AfterReady
      [] phase = "preflight" -> AfterPreflight(marker)
      [] phase = "install" -> AfterInstall(marker)

\* A read either finds nothing, or an awaited line that was printed.
LEMMA Reads ==
    ASSUME HostTypes, BufferInv, out \in Seq(Markers), Read(out)
    PROVE  /\ Waiting
           /\ UNCHANGED <<guided, attempts, issued, token, confirmed, repeats, typed>>
           /\ pos' \in 0..(2 * Len(out))
           /\ \/ UNCHANGED <<phase, verdict, doubt, inventory, unsent>>
              \/ phase = "probing" /\ AfterReady
              \/ \E i \in 1..Len(out) :
                    /\ Awaited(out[i])
                    /\ \/ phase = "preflight" /\ AfterPreflight(out[i])
                       \/ phase = "install" /\ AfterInstall(out[i])
<1>1. PICK n \in 1..(2 * Len(out) - pos) :
        LET scan == Scan(buffer \o Chunk(n))
        IN /\ pos' = pos + n
           /\ buffer' = IF scan.found = Nothing THEN scan.line ELSE <<>>
           /\ IF scan.found = Nothing
              THEN UNCHANGED <<phase, verdict, doubt, inventory, unsent>>
              ELSE Follow(scan.found)
  BY DEF Read, Chunk, Follow
<1>2. Waiting /\ UNCHANGED <<guided, attempts, issued, token, confirmed, repeats, typed>>
  BY DEF Read
<1>3. pos' \in 0..(2 * Len(out))
  BY <1>1 DEF HostTypes
<1>4. CASE phase = "probing"
  BY <1>1, <1>2, <1>3, <1>4 DEF Follow
<1>5. CASE phase # "probing" /\ Scan(buffer \o Chunk(n)).found # Nothing
  <2>1. PICK i \in 1..Len(out) : Scan(buffer \o Chunk(n)).found = out[i] /\ Awaited(out[i])
    BY <1>2, <1>5, FoundIsPrinted
  <2>2. Follow(out[i]) /\ phase \in {"preflight", "install"}
    BY <1>1, <1>2, <1>5, <2>1 DEF Waiting
  <2>3. \/ phase = "preflight" /\ AfterPreflight(out[i])
        \/ phase = "install" /\ AfterInstall(out[i])
    BY <2>2 DEF Follow
  <2> QED
    BY <1>2, <1>3, <2>1, <2>3
<1>6. CASE Scan(buffer \o Chunk(n)).found = Nothing
  BY <1>1, <1>2, <1>3, <1>6
<1> QED
  BY <1>4, <1>5, <1>6

LEMMA TypesStep ==
    ASSUME HostTypes, UnsentInv, BufferInv, TargetInv, SuccessInv, [CPNext]_allVars
    PROVE  HostTypes'
<1>0. /\ out \in Seq(Markers) /\ typed \in Seq(CommandPieces) /\ Len(out) \in Nat
      /\ Len(out') \in Nat /\ Len(out) <= Len(out')
      /\ pos \in Nat
  BY TargetSide DEF TargetInv, TypeOK, HostTypes
<1>1. UNCHANGED pos => pos' \in 0..(2 * Len(out'))
  BY <1>0 DEF HostTypes
<1>2. ASSUME NEW t \in Tokens, NEW k \in {"ready", "preflight", "install"},
             NEW d \in Disks \cup {NoInventory}, k # "install" => d = NoInventory
      PROVE  Pieces(Command(k, t, d)) \in Seq(CommandPieces)
  <2>1. Command(k, t, d) \in Lines
    BY <1>2, Commanded
  <2> QED
    BY <2>1, LineTypes
<1>3. <<>> \in Seq(CommandPieces)
  OBVIOUS
<1>4. ASSUME UNCHANGED <<consoleVars>> PROVE HostTypes'
  BY <1>1, <1>4 DEF consoleVars, hostVars, HostTypes
<1>5. ASSUME UNCHANGED hostVars, typed' \in Seq(CommandPieces) PROVE HostTypes'
  BY <1>1, <1>5 DEF hostVars, HostTypes
<1>6. ASSUME Fail, UNCHANGED <<guided, issued, token, inventory, pos>>,
             typed' \in Seq(CommandPieces)
      PROVE  HostTypes'
  <2>1. verdict' \in {"unknown", "safe"} /\ phase' = "idle" /\ unsent' = <<>>
    BY <1>6 DEF Fail, End
  <2>2. doubt' \in BOOLEAN
    BY <1>6 DEF Fail, End, HostTypes
  <2> QED
    BY <1>1, <1>3, <1>6, <2>1, <2>2 DEF HostTypes, Phases
<1>7. CASE StartConsole /\ UNCHANGED out
  BY <1>1, <1>7, FreshToken DEF StartConsole, HostTypes, Phases
<1>8. CASE OpenConsole(out) /\ UNCHANGED out
  BY <1>0, <1>2, <1>8 DEF OpenConsole, SendProbe, HostTypes, Phases
<1>9. CASE ProbeAgain /\ UNCHANGED out
  BY <1>1, <1>2, <1>9 DEF ProbeAgain, SendProbe, HostTypes, Phases
<1>10. CASE WriteSome /\ UNCHANGED out
  <2>1. PICK n \in 1..Len(unsent) :
          /\ typed' = typed \o SubSeq(unsent, 1, n)
          /\ unsent' = SubSeq(unsent, n + 1, Len(unsent))
    BY <1>10 DEF WriteSome
  <2>2. unsent \in Seq(CommandPieces) /\ n \in 0..Len(unsent)
    BY DEF HostTypes
  <2>3. unsent' \in Seq(CommandPieces)
    BY <2>1, <2>2, Rest
  <2>4. SubSeq(unsent, 1, n) \in Seq(CommandPieces)
    BY <2>2
  <2>5. typed' \in Seq(CommandPieces)
    BY <1>0, <2>1, <2>4
  <2> QED
    BY <1>1, <1>10, <2>3, <2>5 DEF WriteSome, HostTypes
<1>11. CASE TypePhrase /\ UNCHANGED out
  <2>1. Fresh \in Tokens
    BY <1>11, FreshToken DEF TypePhrase
  <2>2. unsent' \in Seq(CommandPieces)
    BY <1>2, <1>11, <2>1 DEF TypePhrase, HostTypes
  <2> QED
    BY <1>1, <1>11, <2>1, <2>2 DEF TypePhrase, HostTypes, Phases
<1>12. CASE GiveUp /\ UNCHANGED out
  BY <1>0, <1>6, <1>12 DEF GiveUp
<1>13. CASE Read(out) /\ UNCHANGED out
  <2>1. /\ Waiting
        /\ UNCHANGED <<guided, attempts, issued, token, confirmed, repeats, typed>>
        /\ pos' \in 0..(2 * Len(out))
    BY <1>0, <1>13, Reads
  <2>2. CASE UNCHANGED <<phase, verdict, doubt, inventory, unsent>>
    BY <1>13, <2>1, <2>2 DEF HostTypes
  <2>3. CASE phase = "probing" /\ AfterReady
    <3>1. unsent' \in Seq(CommandPieces)
      BY <1>2, <2>3 DEF AfterReady, HostTypes
    <3> QED
      BY <1>13, <2>1, <2>3, <3>1 DEF AfterReady, HostTypes, Phases
  <2>4. ASSUME NEW i \in 1..Len(out), phase = "preflight", AfterPreflight(out[i])
        PROVE  HostTypes'
    <3>1. out[i].inventory \in Disks \cup {NoInventory}
      <4>1. out[i] \in Markers
        BY <1>0
      <4> QED
        BY <4>1 DEF Markers
    <3>2. CASE out[i].kind = "preflight-success"
      BY <1>13, <2>1, <2>4, <3>1, <3>2 DEF AfterPreflight, HostTypes, Phases
    <3>3. CASE out[i].kind # "preflight-success"
      <4>1. Fail /\ UNCHANGED inventory
        BY <2>4, <3>3 DEF AfterPreflight
      <4>2. verdict' = "safe" /\ phase' = "idle" /\ unsent' = <<>> /\ doubt' = doubt
        BY <2>4, <4>1 DEF Fail, End, HostTypes
      <4> QED
        BY <1>3, <1>13, <2>1, <4>1, <4>2 DEF HostTypes, Phases
    <3> QED
      BY <3>2, <3>3
  <2>5. ASSUME NEW i \in 1..Len(out), phase = "install", AfterInstall(out[i])
        PROVE  HostTypes'
    <3>1. UNCHANGED inventory /\ phase' = "idle" /\ unsent' = <<>>
      BY <2>5 DEF AfterInstall, Fail, End
    <3>2. verdict' \in {"complete", "unknown"}
      BY <2>5 DEF AfterInstall, Fail, End
    <3>3. doubt' \in BOOLEAN
      BY <2>5 DEF AfterInstall, Fail, End, HostTypes
    <3> QED
      BY <1>3, <1>13, <2>1, <3>1, <3>2, <3>3 DEF HostTypes, Phases
  <2> QED
    BY <1>0, <1>13, <2>2, <2>3, <2>4, <2>5, Reads
<1>14. CASE HostSteps
  BY <1>7, <1>8, <1>9, <1>10, <1>11, <1>12, <1>13, <1>14 DEF HostSteps, target
<1>15. CASE ShellReads
  <2>1. PICK m \in 1..Len(typed) : typed' = SubSeq(typed, m + 1, Len(typed))
    BY <1>0, <1>15, LineTaken
  <2>2. typed' \in Seq(CommandPieces)
    BY <1>0, <2>1, Rest
  <2> QED
    BY <1>5, <1>15, <2>2 DEF ShellReads
<1>16. CASE Unplug
  <2>1. typed' = <<>>
    BY <1>16 DEF Unplug
  <2> QED
    BY <1>3, <1>5, <1>6, <1>16, <2>1 DEF Unplug
<1> QED
  BY <1>4, <1>14, <1>15, <1>16, Steps DEF TargetAlone

\* A piece or two of a line, taken at once or one after the other.
LEMMA Halves ==
    ASSUME NEW x, NEW y
    PROVE  /\ SubSeq(<<x, y>>, 1, 1) = <<x>>
           /\ SubSeq(<<x, y>>, 2, 2) = <<y>>
           /\ SubSeq(<<x, y>>, 1, 2) = <<x, y>>
           /\ SubSeq(<<x, y>>, 3, 2) = <<>>
           /\ SubSeq(<<x>>, 1, 1) = <<x>>
           /\ SubSeq(<<x>>, 2, 1) = <<>>
<1> DEFINE S == {x, y}
<1>1. /\ <<x, y>> \in Seq(S) /\ Len(<<x, y>>) = 2 /\ <<x, y>>[1] = x /\ <<x, y>>[2] = y
      /\ <<x>> \in Seq(S) /\ Len(<<x>>) = 1 /\ <<x>>[1] = x
  OBVIOUS
<1> HIDE DEF S
<1>2. SubSeq(<<x, y>>, 1, 1) = <<x>>
  <2>1. /\ SubSeq(<<x, y>>, 1, 1) \in Seq(S) /\ Len(SubSeq(<<x, y>>, 1, 1)) = 1
        /\ SubSeq(<<x, y>>, 1, 1)[1] = x
    BY <1>1
  <2> QED
    BY <2>1, Single
<1>3. SubSeq(<<x, y>>, 2, 2) = <<y>>
  <2>1. /\ SubSeq(<<x, y>>, 2, 2) \in Seq(S) /\ Len(SubSeq(<<x, y>>, 2, 2)) = 1
        /\ SubSeq(<<x, y>>, 2, 2)[1] = y
    BY <1>1
  <2> QED
    BY <2>1, Single
<1>4. SubSeq(<<x, y>>, 1, 2) = <<x, y>>
  <2>1. /\ SubSeq(<<x, y>>, 1, 2) \in Seq(S) /\ Len(SubSeq(<<x, y>>, 1, 2)) = 2
        /\ SubSeq(<<x, y>>, 1, 2)[1] = x /\ SubSeq(<<x, y>>, 1, 2)[2] = y
    BY <1>1
  <2> QED
    BY <1>1, <2>1, Pair
<1>5. SubSeq(<<x, y>>, 3, 2) = <<>>
  BY <1>1
<1>6. SubSeq(<<x>>, 1, 1) = <<x>>
  <2>1. /\ SubSeq(<<x>>, 1, 1) \in Seq(S) /\ Len(SubSeq(<<x>>, 1, 1)) = 1
        /\ SubSeq(<<x>>, 1, 1)[1] = x
    BY <1>1
  <2> QED
    BY <2>1, Single
<1>7. SubSeq(<<x>>, 2, 1) = <<>>
  BY <1>1
<1> QED
  BY <1>2, <1>3, <1>4, <1>5, <1>6, <1>7

\* A write takes the rest of the line, or all but the piece with the newline.
LEMMA Written ==
    ASSUME HostTypes, UnsentInv, WriteSome
    PROVE  \E c \in Lines :
             /\ c.kind = Begins
             /\ c.session = token
             /\ \/ /\ unsent' = <<[line |-> c, last |-> TRUE]>>
                   /\ typed' = typed \o <<[line |-> c, last |-> FALSE]>>
                \/ /\ unsent' = <<>>
                   /\ typed' \in {typed \o Pieces(c),
                                  typed \o <<[line |-> c, last |-> TRUE]>>}
<1>1. PICK n \in 1..Len(unsent) :
        /\ typed' = typed \o SubSeq(unsent, 1, n)
        /\ unsent' = SubSeq(unsent, n + 1, Len(unsent))
  BY DEF WriteSome
<1>2. PICK c \in Lines : /\ c.kind = Begins
                         /\ c.session = token
                         /\ unsent \in {Pieces(c), <<[line |-> c, last |-> TRUE]>>}
  BY DEF WriteSome, Writing, UnsentInv
<1> DEFINE first == [line |-> c, last |-> FALSE]
           final == [line |-> c, last |-> TRUE]
<1>3. Pieces(c) = <<first, final>>
  BY DEF Pieces
<1> HIDE DEF first, final
<1>4. CASE unsent = <<final>>
  <2>1. n = 1 /\ Len(unsent) = 1 /\ 1 + 1 = 2
    BY <1>4
  <2>2. typed' = typed \o <<final>> /\ unsent' = <<>>
    BY <1>1, <1>4, <2>1, Halves
  <2> QED
    BY <1>2, <2>2 DEF final
<1>5. CASE unsent = <<first, final>>
  <2>1. Len(unsent) = 2 /\ 1 + 1 = 2 /\ 2 + 1 = 3
    BY <1>5
  <2>2. CASE n = 1
    <3>1. typed' = typed \o <<first>> /\ unsent' = <<final>>
      BY <1>1, <1>5, <2>1, <2>2, Halves
    <3> QED
      BY <1>2, <3>1 DEF first, final
  <2>3. CASE n = 2
    <3>1. typed' = typed \o Pieces(c) /\ unsent' = <<>>
      BY <1>1, <1>3, <1>5, <2>1, <2>3, Halves
    <3> QED
      BY <1>2, <3>1
  <2>4. n = 1 \/ n = 2
    BY <1>1, <2>1
  <2> QED
    BY <2>2, <2>3, <2>4
<1> QED
  BY <1>2, <1>3, <1>4, <1>5 DEF final

-----------------------------------------------------------------------------
(* What a step of the console comes to *)

Same == UNCHANGED <<issued, token, typed>>

Listens   == Waiting /\ Same /\ UNCHANGED <<phase, verdict, doubt, inventory, unsent>>
Answered  == Waiting /\ Same /\ phase = "probing" /\ AfterReady
Reported  == /\ Waiting /\ Same /\ phase = "preflight" /\ phase' = "confirming"
             /\ UNCHANGED <<verdict, doubt, unsent>>
             /\ \E i \in 1..Len(out) : /\ out[i].kind = "preflight-success"
                                       /\ out[i].session = token
                                       /\ inventory' = out[i].inventory
Completed == /\ Waiting /\ Same /\ phase = "install" /\ End("complete")
             /\ UNCHANGED inventory
             /\ \E i \in 1..Len(out) : out[i].kind = "success" /\ out[i].session = token
Ended     == phase # "idle" /\ Fail /\ UNCHANGED <<issued, token, inventory>>

LEMMA HostMoves ==
    ASSUME HostTypes, BufferInv, out \in Seq(Markers), HostSteps
    PROVE  /\ UNCHANGED target
           /\ \/ StartConsole \/ OpenConsole(out) \/ ProbeAgain \/ WriteSome \/ TypePhrase
              \/ Listens \/ Answered \/ Reported \/ Completed \/ (Ended /\ UNCHANGED typed)
<1>1. UNCHANGED target
  BY DEF HostSteps
<1>2. CASE StartConsole \/ OpenConsole(out) \/ ProbeAgain \/ WriteSome \/ TypePhrase
  BY <1>1, <1>2
<1>3. CASE GiveUp
  BY <1>1, <1>3 DEF GiveUp, Ended
<1>4. CASE Read(out)
  <2>1. Waiting /\ Same
    BY <1>4, Reads DEF Same
  <2>2. CASE UNCHANGED <<phase, verdict, doubt, inventory, unsent>>
    BY <1>1, <2>1, <2>2 DEF Listens
  <2>3. CASE phase = "probing" /\ AfterReady
    BY <1>1, <2>1, <2>3 DEF Answered
  <2>4. ASSUME NEW i \in 1..Len(out), Awaited(out[i]), phase = "preflight",
               AfterPreflight(out[i])
        PROVE  Reported \/ (Ended /\ UNCHANGED typed)
    <3>1. CASE out[i].kind = "preflight-success"
      BY <2>1, <2>4, <3>1 DEF AfterPreflight, Awaited, Reported
    <3>2. CASE out[i].kind # "preflight-success"
      BY <2>1, <2>4, <3>2 DEF AfterPreflight, Ended, Same
    <3> QED
      BY <3>1, <3>2
  <2>5. ASSUME NEW i \in 1..Len(out), Awaited(out[i]), phase = "install",
               AfterInstall(out[i])
        PROVE  Completed \/ (Ended /\ UNCHANGED typed)
    <3>1. CASE out[i].kind = "success"
      BY <2>1, <2>5, <3>1 DEF AfterInstall, Awaited, Completed
    <3>2. CASE out[i].kind # "success"
      BY <2>1, <2>5, <3>2 DEF AfterInstall, Ended, Same
    <3> QED
      BY <3>1, <3>2
  <2> QED
    BY <1>1, <1>4, <2>2, <2>3, <2>4, <2>5, Reads
<1> QED
  BY <1>2, <1>3, <1>4 DEF HostSteps

\* The other steps, as the console sees them.
LEMMA OtherMoves ==
    ASSUME typed \in Seq(CommandPieces), [CPNext]_allVars, ~HostSteps
    PROVE  \/ UNCHANGED hostVars
              /\ \E m \in 0..Len(typed) : typed' = SubSeq(typed, m + 1, Len(typed))
           \/ Ended /\ typed' = <<>>
<1>0. Len(typed) \in Nat
  OBVIOUS
<1>1. CASE TargetAlone
  <2>1. UNCHANGED <<hostVars, typed>>
    BY <1>1 DEF TargetAlone, consoleVars
  <2>2. SubSeq(typed, 0 + 1, Len(typed)) = typed
    OBVIOUS
  <2> QED
    BY <1>0, <2>1, <2>2
<1>2. CASE ShellReads
  <2>1. PICK m \in 1..Len(typed) : typed' = SubSeq(typed, m + 1, Len(typed))
    BY <1>2, LineTaken
  <2>2. m \in 0..Len(typed)
    BY <1>0
  <2> QED
    BY <1>2, <2>1, <2>2 DEF ShellReads
<1>3. CASE Unplug
  <2>1. typed' = <<>> /\ SubSeq(typed, Len(typed) + 1, Len(typed)) = <<>>
    BY <1>3 DEF Unplug
  <2>2. Ended \/ UNCHANGED hostVars
    BY <1>3 DEF Unplug, Ended
  <2> QED
    BY <1>0, <2>1, <2>2
<1> QED
  BY <1>1, <1>2, <1>3, Steps

LEMMA UnsentStep ==
    ASSUME HostTypes, UnsentInv, BufferInv, TargetInv, SuccessInv, [CPNext]_allVars
    PROVE  UnsentInv'
<1>0. out \in Seq(Markers) /\ typed \in Seq(CommandPieces)
  BY DEF TargetInv, TypeOK, HostTypes
<1>1. CASE unsent' = <<>>
  BY <1>1 DEF UnsentInv
<1>2. CASE UNCHANGED <<unsent, phase, token>>
  BY <1>2 DEF UnsentInv, Begins
<1>3. ASSUME NEW k \in {"ready", "preflight", "install"},
             NEW d \in Disks \cup {NoInventory},
             k # "install" => d = NoInventory, token' \in Tokens,
             phase' = (IF k = "ready" THEN "probing" ELSE k),
             unsent' = Pieces(Command(k, token', d))
      PROVE  UnsentInv'
  <2> DEFINE c == Command(k, token', d)
  <2>1. c \in Lines /\ c.kind = k /\ c.session = token'
    BY <1>3, Commanded
  <2> HIDE DEF c
  <2>2. k = Begins' /\ phase' \in {"probing", "preflight", "install"}
    BY <1>3 DEF Begins
  <2>3. unsent' \in {Pieces(c), <<[line |-> c, last |-> TRUE]>>}
    BY <1>3 DEF c
  <2> QED
    BY <2>1, <2>2, <2>3 DEF UnsentInv
<1>4. CASE StartConsole
  <2>1. unsent = <<>>
    BY <1>4 DEF StartConsole, UnsentInv
  <2> QED
    BY <1>1, <1>4, <2>1 DEF StartConsole
<1>5. CASE OpenConsole(out)
  BY <1>3, <1>5 DEF OpenConsole, SendProbe, HostTypes
<1>6. CASE ProbeAgain
  BY <1>3, <1>6 DEF ProbeAgain, SendProbe, HostTypes
<1>7. CASE WriteSome
  <2>1. PICK c \in Lines : /\ c.kind = Begins
                           /\ c.session = token
                           /\ unsent' \in {<<>>, <<[line |-> c, last |-> TRUE]>>}
    BY <1>7, Written
  <2>2. UNCHANGED <<phase, token>> /\ phase \in {"probing", "preflight", "install"}
    BY <1>7 DEF WriteSome, Writing
  <2> QED
    BY <2>1, <2>2 DEF UnsentInv, Begins
<1>8. CASE TypePhrase
  <2>1. token' \in Tokens /\ token' = Fresh
    BY <1>8, FreshToken DEF TypePhrase
  <2> QED
    BY <1>3, <1>8, <2>1 DEF TypePhrase, HostTypes
<1>9. CASE Answered
  BY <1>3, <1>9 DEF Answered, AfterReady, Same, HostTypes
<1>10. CASE Listens \/ Reported \/ Completed \/ Ended
  BY <1>1, <1>2, <1>10 DEF Listens, Reported, Completed, Ended, Waiting, Same, Fail, End
<1>11. CASE UNCHANGED hostVars
  BY <1>2, <1>11 DEF hostVars
<1> QED
  BY <1>0, <1>4, <1>5, <1>6, <1>7, <1>8, <1>9, <1>10, <1>11, HostMoves, OtherMoves

-----------------------------------------------------------------------------
(* The terminal *)

LEMMA WholeStep ==
    ASSUME HostTypes, UnsentInv, BufferInv, NothingHalfTyped, TargetInv, SuccessInv,
           [CPNext]_allVars
    PROVE  NothingHalfTyped'
<1>0. out \in Seq(Markers) /\ typed \in Seq(CommandPieces) /\ Len(typed) \in Nat
  BY DEF TargetInv, TypeOK, HostTypes
<1>1. CASE ~Waiting'
  BY <1>1 DEF NothingHalfTyped
<1>2. CASE Waiting /\ UNCHANGED typed
  BY <1>2 DEF NothingHalfTyped
<1>3. CASE typed' = <<>>
  BY <1>3 DEF NothingHalfTyped
<1>4. CASE StartConsole \/ OpenConsole(out) \/ ProbeAgain \/ TypePhrase \/ Answered
  BY <1>1, <1>4 DEF StartConsole, OpenConsole, SendProbe, ProbeAgain, TypePhrase, Answered,
     AfterReady, Pieces, Waiting
<1>5. CASE WriteSome
  <2>1. PICK c \in Lines :
           \/ unsent' = <<[line |-> c, last |-> TRUE]>>
           \/ /\ unsent' = <<>>
              /\ typed' \in {typed \o Pieces(c), typed \o <<[line |-> c, last |-> TRUE]>>}
    BY <1>5, Written
  <2>2. CASE unsent' = <<[line |-> c, last |-> TRUE]>>
    BY <1>1, <2>2 DEF Waiting
  <2>3. ASSUME NEW s \in Seq(CommandPieces), typed' = typed \o s, s # <<>>, s[Len(s)].last
        PROVE  NothingHalfTyped'
    <3>1. Len(s) \in 1..Len(s) /\ Len(s) \in Nat
      BY <2>3
    <3>2. typed'[Len(typed')] = s[Len(s)]
      BY <1>0, <2>3, <3>1, Joined
    <3> QED
      BY <2>3, <3>2 DEF NothingHalfTyped, Last
  <2>4. /\ Pieces(c) \in Seq(CommandPieces)
        /\ Pieces(c) # <<>>
        /\ Pieces(c)[Len(Pieces(c))] = [line |-> c, last |-> TRUE]
    BY LineTypes DEF Pieces
  <2>5. /\ <<[line |-> c, last |-> TRUE]>> \in Seq(CommandPieces)
        /\ <<[line |-> c, last |-> TRUE]>> # <<>>
        /\ <<[line |-> c, last |-> TRUE]>>[Len(<<[line |-> c, last |-> TRUE]>>)]
             = [line |-> c, last |-> TRUE]
    BY DEF CommandPieces
  <2>6. CASE typed' = typed \o Pieces(c)
    BY <2>3, <2>4, <2>6
  <2>7. CASE typed' = typed \o <<[line |-> c, last |-> TRUE]>>
    <3> DEFINE s == <<[line |-> c, last |-> TRUE]>>
    <3>1. s \in Seq(CommandPieces) /\ s # <<>> /\ s[Len(s)].last /\ typed' = typed \o s
      BY <2>5, <2>7
    <3> HIDE DEF s
    <3> QED
      BY <2>3, <3>1
  <2> QED
    BY <2>1, <2>2, <2>6, <2>7
<1>6. CASE (Listens \/ Reported \/ Completed \/ Ended) /\ UNCHANGED typed
  BY <1>1, <1>2, <1>6 DEF Listens, Reported, Completed, Ended, Waiting, Same, Fail, End
<1>7. ASSUME UNCHANGED hostVars, NEW m \in 0..Len(typed),
             typed' = SubSeq(typed, m + 1, Len(typed)),
             Waiting', typed' # <<>>
      PROVE  NothingHalfTyped'
  <2>1. Last(typed).last
    <3>1. Waiting /\ typed # <<>>
      BY <1>0, <1>7, Rest DEF hostVars, Waiting
    <3> QED
      BY <3>1 DEF NothingHalfTyped
  <2>2. Len(typed') = Len(typed) - m /\ Len(typed') \in 1..(Len(typed) - m)
    BY <1>0, <1>7, Rest
  <2>3. typed'[Len(typed')] = typed[Len(typed)]
    <3>1. typed'[Len(typed')] = typed[Len(typed') + m]
      BY <1>0, <1>7, <2>2, Rest
    <3>2. Len(typed') + m = Len(typed)
      BY <1>0, <2>2
    <3> QED
      BY <3>1, <3>2
  <2> QED
    BY <2>1, <2>3 DEF NothingHalfTyped, Last
<1>8. CASE UNCHANGED hostVars
           /\ \E m \in 0..Len(typed) : typed' = SubSeq(typed, m + 1, Len(typed))
  BY <1>1, <1>3, <1>7, <1>8
<1>9. CASE HostSteps
  BY <1>0, <1>4, <1>5, <1>6, <1>9, HostMoves DEF Same, Listens, Reported, Completed
<1> QED
  BY <1>0, <1>3, <1>8, <1>9, OtherMoves

LEMMA TokenStep ==
    ASSUME HostTypes, UnsentInv, BufferInv, TokenInv, TargetInv, SuccessInv,
           [CPNext]_allVars
    PROVE  TokenInv'
<1>0. out \in Seq(Markers) /\ typed \in Seq(CommandPieces) /\ Len(typed) \in Nat
  BY DEF TargetInv, TypeOK, HostTypes
<1>1. UNCHANGED target => UNCHANGED <<used, cmd>>
  BY DEF target, run
<1>2. ASSUME UNCHANGED <<used, typed>>, Tokens \ issued # {}, token' = Fresh,
             issued' = issued \cup {Fresh}, phase' = "install" => unsent' # <<>>
      PROVE  TokenInv'
  <2>1. Fresh \notin issued
    BY <1>2, FreshToken
  <2>2. token' \notin used' /\ \A k \in 1..Len(typed') : ~Carried(k)'
    BY <1>2, <2>1 DEF TokenInv, Carried
  <2> QED
    BY <1>2, <2>2 DEF TokenInv
<1>3. ASSUME UNCHANGED <<used, cmd, issued, token, typed>>,
             \/ phase' \in {"idle", "confirming"}
             \/ phase' = phase /\ (unsent' = <<>> <=> unsent = <<>>)
             \/ phase' = phase /\ phase = "probing"
             \/ /\ phase \in {"modem", "probing"}
                /\ phase' = "probing"
                   \/ (phase' \in {"preflight", "install"} /\ unsent' # <<>>)
      PROVE  TokenInv'
  BY <1>3 DEF TokenInv, Carried
<1>4. CASE StartConsole /\ UNCHANGED target
  BY <1>1, <1>2, <1>4 DEF StartConsole
<1>5. CASE OpenConsole(out) /\ UNCHANGED target
  BY <1>1, <1>3, <1>5 DEF OpenConsole
<1>6. CASE ProbeAgain /\ UNCHANGED target
  BY <1>1, <1>3, <1>6 DEF ProbeAgain
<1>7. CASE TypePhrase /\ UNCHANGED target
  <2>1. unsent' # <<>>
    BY <1>7 DEF TypePhrase, Pieces
  <2> QED
    BY <1>1, <1>2, <1>7, <2>1 DEF TypePhrase
<1>8. CASE Answered /\ UNCHANGED target
  <2>1. unsent' # <<>> /\ phase' \in {"preflight", "install"}
    BY <1>8 DEF Answered, AfterReady, Pieces
  <2> QED
    BY <1>1, <1>3, <1>8, <2>1 DEF Answered, Same
<1>9. CASE Listens /\ UNCHANGED target
  BY <1>1, <1>3, <1>9 DEF Listens, Same
<1>10. CASE (Reported \/ Completed) /\ UNCHANGED target
  BY <1>1, <1>3, <1>10 DEF Reported, Completed, Same, End
<1>11. CASE Ended /\ UNCHANGED typed /\ UNCHANGED target
  BY <1>1, <1>3, <1>11 DEF Ended, Fail, End
<1>12. CASE WriteSome /\ UNCHANGED target
  <2>1. PICK c \in Lines :
           /\ c.kind = Begins
           /\ c.session = token
           /\ \/ /\ unsent' = <<[line |-> c, last |-> TRUE]>>
                 /\ typed' = typed \o <<[line |-> c, last |-> FALSE]>>
              \/ /\ unsent' = <<>>
                 /\ typed' \in {typed \o Pieces(c),
                                typed \o <<[line |-> c, last |-> TRUE]>>}
    BY <1>12, Written
  <2>2. /\ UNCHANGED <<used, cmd, issued, token, phase>>
        /\ phase \in {"probing", "preflight", "install"} /\ unsent # <<>>
    BY <1>1, <1>12 DEF WriteSome, Writing
  <2>3. ASSUME NEW s \in Seq(CommandPieces), typed' = typed \o s,
               \A j \in 1..Len(s) : /\ s[j].line = c
                                    /\ s[j].last => j = Len(s) /\ unsent' = <<>>
        PROVE  TokenInv'
    <3>0. Len(s) \in Nat /\ Len(typed') = Len(typed) + Len(s)
      BY <1>0, <2>3, Joined
    <3>1. ASSUME NEW k \in 1..Len(typed')
          PROVE  \/ k \in 1..Len(typed) /\ typed'[k] = typed[k]
                 \/ \E j \in 1..Len(s) : k = Len(typed) + j /\ typed'[k] = s[j]
      <4>1. CASE k \in 1..Len(typed)
        BY <1>0, <2>3, <4>1, Joined
      <4>2. CASE k \notin 1..Len(typed)
        <5>1. k - Len(typed) \in 1..Len(s) /\ k = Len(typed) + (k - Len(typed))
          BY <1>0, <3>0, <4>2
        <5>2. typed'[Len(typed) + (k - Len(typed))] = s[k - Len(typed)]
          BY <1>0, <2>3, <5>1, Joined
        <5> QED
          BY <5>1, <5>2
      <4> QED
        BY <4>1, <4>2
    <3>2. \A k \in 1..Len(typed') : typed'[k].line.session \in issued'
      <4>1. c.session \in issued'
        BY <2>1, <2>2 DEF HostTypes
      <4>2. \A k \in 1..Len(typed) : typed[k].line.session \in issued'
        BY <2>2 DEF TokenInv
      <4>3. \A j \in 1..Len(s) : s[j].line = c
        BY <2>3
      <4> QED
        BY <3>1, <4>1, <4>2, <4>3
    <3>3. token \notin used /\ \A k \in 1..Len(typed) : ~Carried(k)
      BY <2>2 DEF TokenInv
    <3>4. ASSUME NEW k \in 1..Len(typed'), Carried(k)'
          PROVE  k = Len(typed') /\ unsent' = <<>> /\ phase # "probing"
      <4>1. ~(k \in 1..Len(typed) /\ typed'[k] = typed[k])
        BY <2>2, <3>3, <3>4 DEF Carried
      <4>2. PICK j \in 1..Len(s) : k = Len(typed) + j /\ typed'[k] = s[j]
        BY <3>1, <4>1
      <4>3. s[j].last /\ c.kind # "ready"
        BY <2>3, <3>4, <4>2 DEF Carried
      <4> QED
        BY <2>1, <2>3, <3>0, <4>2, <4>3 DEF Begins
    <3> QED
      BY <2>2, <3>2, <3>3, <3>4 DEF TokenInv
  <2> DEFINE first == [line |-> c, last |-> FALSE]
             final == [line |-> c, last |-> TRUE]
  <2>4. /\ first \in CommandPieces /\ first.line = c /\ ~first.last
        /\ final \in CommandPieces /\ final.line = c /\ Pieces(c) = <<first, final>>
    BY DEF CommandPieces, Pieces
  <2> HIDE DEF first, final
  <2>5. CASE typed' = typed \o <<first>>
    <3> DEFINE s == <<first>>
    <3>1. s \in Seq(CommandPieces)
      BY <2>4
    <3>2. \A j \in 1..Len(s) : s[j].line = c /\ (s[j].last => j = Len(s) /\ unsent' = <<>>)
      BY <2>4, <2>5
    <3>3. typed' = typed \o s
      BY <2>5
    <3> HIDE DEF s
    <3> QED
      BY <2>3, <3>1, <3>2, <3>3
  <2>6. CASE typed' = typed \o <<final>> /\ unsent' = <<>>
    <3> DEFINE s == <<final>>
    <3>1. s \in Seq(CommandPieces)
      BY <2>4
    <3>2. \A j \in 1..Len(s) : s[j].line = c /\ (s[j].last => j = Len(s) /\ unsent' = <<>>)
      BY <2>4, <2>6
    <3>3. typed' = typed \o s
      BY <2>6
    <3> HIDE DEF s
    <3> QED
      BY <2>3, <3>1, <3>2, <3>3
  <2>7. CASE typed' = typed \o <<first, final>> /\ unsent' = <<>>
    <3> DEFINE s == <<first, final>>
    <3>1. s \in Seq(CommandPieces)
      BY <2>4
    <3>2. \A j \in 1..Len(s) : s[j].line = c /\ (s[j].last => j = Len(s) /\ unsent' = <<>>)
      BY <2>4, <2>7
    <3>3. typed' = typed \o s
      BY <2>7
    <3> HIDE DEF s
    <3> QED
      BY <2>3, <3>1, <3>2, <3>3
  <2> QED
    BY <2>1, <2>4, <2>5, <2>6, <2>7 DEF first, final
<1>13. CASE HostSteps
  BY <1>0, <1>4, <1>5, <1>6, <1>7, <1>8, <1>9, <1>10, <1>11, <1>12, <1>13, HostMoves
<1>14. CASE TargetAlone
  <2>1. UNCHANGED <<used, cmd>>
    BY <1>14, CommandKept DEF TargetAlone, vars, run
  <2> QED
    BY <1>3, <1>14, <2>1 DEF TargetAlone, consoleVars, hostVars
<1>15. CASE Unplug
  <2>1. UNCHANGED <<used, cmd, issued, token>> /\ typed' = <<>>
    BY <1>15 DEF Unplug, Hangup, run, hostVars
  <2>2. phase' = "idle" \/ UNCHANGED <<phase, unsent>>
    BY <1>15 DEF Unplug, Fail, End, hostVars
  <2> QED
    BY <2>1, <2>2 DEF TokenInv
<1>16. CASE ShellReads
  <2>1. PICK m \in 1..Len(typed) :
             /\ typed[m].last
             /\ typed' = SubSeq(typed, m + 1, Len(typed))
             /\ \/ UNCHANGED target
                \/ Echo
                \/ \E c \in Commands : /\ Start(c)
                                       /\ typed[m].line.kind # "ready"
                                       /\ c.kind = typed[m].line.kind
                                       /\ c.session = typed[m].line.session
    BY <1>0, <1>16, LineTaken
  <2>2. UNCHANGED <<issued, token, phase, unsent>>
    BY <1>16 DEF ShellReads, hostVars
  <2>3. m \in Nat /\ m \in 0..Len(typed) /\ typed # <<>>
    BY <1>0, <2>1
  <2>4. /\ Len(typed') = Len(typed) - m
        /\ \A k \in 1..(Len(typed) - m) : typed'[k] = typed[k + m]
           /\ k + m \in 1..Len(typed)
    BY <1>0, <2>1, <2>3, Rest
  <2>5. \A k \in 1..Len(typed') : typed'[k].line.session \in issued'
    BY <2>2, <2>4 DEF TokenInv
  <2>6. ASSUME NEW k \in 1..Len(typed'), Carried(k)'
        PROVE  k + m \in 1..Len(typed) /\ Carried(k + m)
    BY <2>2, <2>4, <2>6 DEF Carried
  <2>7. phase = "install" /\ unsent = <<>>
          => \A k \in 1..Len(typed') : Carried(k)' => k = Len(typed')
    <3> SUFFICES ASSUME phase = "install", unsent = <<>>, NEW k \in 1..Len(typed'),
                 Carried(k)'
                 PROVE  k = Len(typed')
      OBVIOUS
    <3>1. k + m = Len(typed)
      BY <2>6 DEF TokenInv
    <3>2. Len(typed') \in Nat /\ Len(typed') = Len(typed) - m
      BY <1>0, <2>1, <2>3, <2>4
    <3>3. k \in Nat
      BY <3>2
    <3> QED
      BY <1>0, <2>3, <3>1, <3>2, <3>3
  <2>8. ASSUME UNCHANGED <<used, cmd>> PROVE TokenInv'
    <3>1. used' \subseteq issued'
      BY <2>2, <2>8 DEF TokenInv
    <3>2. phase \in {"modem", "probing"}
          \/ (phase \in {"preflight", "install"} /\ unsent # <<>>)
            => token \notin used /\ \A k \in 1..Len(typed') : ~Carried(k)'
      BY <2>6 DEF TokenInv
    <3>3. phase = "install" /\ unsent = <<>> => token \notin used
      BY <2>3 DEF TokenInv
    <3> QED
      BY <2>2, <2>5, <2>7, <2>8, <3>1, <3>2, <3>3 DEF TokenInv
  <2>9. ASSUME NEW c \in Commands, Start(c), typed[m].line.kind # "ready",
               c.session = typed[m].line.session
        PROVE  TokenInv'
    <3>1. cmd' = c /\ used' = used \cup {c.session}
      BY <2>9 DEF Start
    <3>2. used' \subseteq issued'
      BY <2>2, <2>9, <3>1 DEF TokenInv
    <3>3. c.session = token => Carried(m)
      BY <2>1, <2>9 DEF Carried
    <3>4. phase \in {"modem", "probing"}
          \/ (phase \in {"preflight", "install"} /\ unsent # <<>>)
            => token \notin used' /\ \A k \in 1..Len(typed') : ~Carried(k)'
      BY <2>6, <3>1, <3>3 DEF TokenInv
    <3>5. phase = "install" /\ unsent = <<>> /\ token \in used'
            => typed' = <<>> /\ cmd'.session = token
      <4> SUFFICES ASSUME phase = "install", unsent = <<>>, token \in used'
                   PROVE  typed' = <<>> /\ cmd'.session = token
        OBVIOUS
      <4>1. token \notin used
        BY <2>3 DEF TokenInv
      <4>2. c.session = token
        BY <3>1, <4>1
      <4>3. m = Len(typed)
        BY <3>3, <4>2 DEF TokenInv
      <4> QED
        BY <1>0, <2>1, <3>1, <4>2, <4>3
    <3> QED
      BY <2>2, <2>5, <2>7, <3>2, <3>4, <3>5 DEF TokenInv
  <2> QED
    BY <1>1, <2>1, <2>8, <2>9 DEF Echo, run
<1> QED
  BY <1>13, <1>14, <1>15, <1>16, Steps

-----------------------------------------------------------------------------
(* The markers a run waits for *)

\* A token that started no script has no marker but its probes' answers.
LEMMA NoneYet ==
    ASSUME TargetInv, SuccessInv, token \notin used
    PROVE  \A i \in 1..Len(out) : ~(Terminal(out[i]) /\ out[i].session = token)
BY DEF SuccessInv, Terminal

\* A read that goes on keeps the buffer in step and overlooks no marker.
LEMMA ReadOn ==
    ASSUME HostTypes, BufferInv, NoMarkerMissed, out \in Seq(Markers), UNCHANGED out,
           Read(out), Waiting', phase' # "probing"
    PROVE  BufferInv' /\ NoMarkerMissed'
<1>1. PICK n \in 1..(2 * Len(out) - pos) :
        LET scan == Scan(buffer \o Chunk(n))
        IN /\ pos' = pos + n
           /\ buffer' = IF scan.found = Nothing THEN scan.line ELSE <<>>
           /\ IF scan.found = Nothing
              THEN UNCHANGED <<phase, verdict, doubt, inventory, unsent>>
              ELSE Follow(scan.found)
  BY DEF Read, Chunk, Follow
<1>2. Waiting /\ UNCHANGED token
  BY DEF Read
<1>3. Scan(buffer \o Chunk(n)).found = Nothing
  <2> SUFFICES ASSUME Scan(buffer \o Chunk(n)).found # Nothing PROVE FALSE
    OBVIOUS
  <2>1. Follow(Scan(buffer \o Chunk(n)).found)
    BY <1>1
  <2>2. CASE phase = "probing"
    BY <2>1, <2>2 DEF Follow, AfterReady, Waiting, Pieces
  <2>3. CASE phase = "preflight"
    BY <2>1, <2>3 DEF Follow, AfterPreflight, Fail, End, Waiting
  <2>4. CASE phase = "install"
    BY <2>1, <2>4 DEF Follow, AfterInstall, Fail, End, Waiting
  <2> QED
    BY <1>2, <2>2, <2>3, <2>4 DEF Waiting
<1>4. UNCHANGED <<phase, unsent>> /\ phase # "probing" /\ phase \in {"preflight", "install"}
  BY <1>1, <1>2, <1>3 DEF Waiting
<1>5. IF (pos + n) % 2 = 1 THEN buffer' = <<PieceAt(out, pos + n)>> ELSE buffer' = <<>>
  BY <1>1, <1>2, <1>3, <1>4, BufferAfter
<1>6. BufferInv'
  <2>1. CASE (pos + n) % 2 = 1
    <3>1. pos' % 2 = 1 /\ buffer' = <<PieceAt(out', pos')>>
      BY <1>1, <1>5, <2>1
    <3>2. buffer' # <<>>
      BY <3>1
    <3> QED
      BY <3>1, <3>2 DEF BufferInv
  <2>2. CASE (pos + n) % 2 # 1
    BY <1>1, <1>5, <2>2 DEF BufferInv
  <2> QED
    BY <2>1, <2>2
<1>7. NoMarkerMissed'
  <2> SUFFICES ASSUME NEW i \in 1..Len(out), Terminal(out[i]), out[i].session = token
               PROVE  pos' < 2 * i
    BY <1>2 DEF NoMarkerMissed
  <2>1. pos < 2 * i
    BY <1>2, <1>4 DEF NoMarkerMissed
  <2>2. Awaited(out[i])
    BY <1>4 DEF Awaited
  <2> QED
    BY <1>1, <1>2, <1>3, <1>4, <2>1, <2>2, NothingOverlooked
<1> QED
  BY <1>6, <1>7

\* What the target prints meanwhile is still to be read.
LEMMA Unread ==
    ASSUME HostTypes, BufferInv, NoMarkerMissed, TargetInv,
           UNCHANGED <<phase, token, unsent, buffer, pos>>,
           \A i \in 1..Len(out) : i \in 1..Len(out') /\ out'[i] = out[i],
           Len(out) \in Nat, Len(out') \in Nat
    PROVE  BufferInv' /\ NoMarkerMissed'
<1>0. pos \in Nat /\ pos <= 2 * Len(out) /\ (Waiting <=> Waiting')
  BY DEF HostTypes, Waiting
<1>1. BufferInv'
  <2>1. pos % 2 = 1 => PieceAt(out', pos) = PieceAt(out, pos)
    <3>1. pos % 2 = 1 => (pos + 1) \div 2 \in 1..Len(out)
      BY <1>0
    <3> QED
      BY <3>1 DEF PieceAt
  <2>2. \A m : Awaited(m)' <=> Awaited(m)
    BY DEF Awaited
  <2>3. CASE pos % 2 = 1
    BY <1>0, <2>1, <2>2, <2>3 DEF BufferInv, Awaited
  <2>4. CASE pos % 2 # 1
    BY <1>0, <2>4 DEF BufferInv
  <2> QED
    BY <2>3, <2>4
<1>2. NoMarkerMissed'
  <2> SUFFICES ASSUME Waiting, phase # "probing", NEW i \in 1..Len(out'),
                      Terminal(out'[i]), out'[i].session = token
               PROVE  pos < 2 * i
    BY <1>0 DEF NoMarkerMissed
  <2>1. CASE i \in 1..Len(out)
    BY <2>1 DEF NoMarkerMissed
  <2>2. CASE i \notin 1..Len(out)
    BY <1>0, <2>2
  <2> QED
    BY <2>1, <2>2
<1> QED
  BY <1>1, <1>2

LEMMA BufferStep ==
    ASSUME HostTypes, UnsentInv, BufferInv, TokenInv, NoMarkerMissed, TargetInv, SuccessInv,
           [CPNext]_allVars
    PROVE  BufferInv' /\ NoMarkerMissed'
<1>0. /\ out \in Seq(Markers) /\ typed \in Seq(CommandPieces)
      /\ \A i \in 1..Len(out) : i \in 1..Len(out') /\ out'[i] = out[i]
      /\ Len(out) \in Nat /\ Len(out') \in Nat
  BY TargetSide DEF TargetInv, TypeOK, HostTypes
<1>1. CASE ~Waiting' \/ phase' = "probing"
  BY <1>1 DEF BufferInv, NoMarkerMissed
<1>2. CASE UNCHANGED hostVars
  BY <1>0, <1>2, Unread DEF hostVars
<1>3. CASE StartConsole \/ OpenConsole(out) \/ ProbeAgain \/ TypePhrase \/ GiveUp
  BY <1>1, <1>3 DEF StartConsole, OpenConsole, ProbeAgain, TypePhrase, GiveUp, Fail, End,
     Pieces, Waiting
<1>4. CASE Ended
  BY <1>1, <1>4 DEF Ended, Fail, End, Waiting
<1>5. CASE Read(out) /\ UNCHANGED out
  BY <1>0, <1>1, <1>5, ReadOn
<1>6. ASSUME WriteSome, UNCHANGED out, Waiting', phase' # "probing"
      PROVE  BufferInv' /\ NoMarkerMissed'
  <2>1. /\ UNCHANGED <<phase, token, pos>> /\ unsent # <<>>
        /\ phase \in {"preflight", "install"} /\ buffer' = <<>>
    BY <1>6 DEF WriteSome, Writing
  <2>2. \A i \in 1..Len(out) : ~(Terminal(out[i]) /\ out[i].session = token)
    BY <2>1, NoneYet DEF TokenInv
  <2>3. NoMarkerMissed'
    BY <1>6, <2>1, <2>2 DEF NoMarkerMissed
  <2>4. ASSUME pos % 2 = 1 PROVE ~Awaited(PieceAt(out, pos).line)'
    <3>1. pos \in 1..(2 * Len(out))
      BY <1>0, <2>4 DEF HostTypes
    <3>2. PICK i \in 1..Len(out) : PieceAt(out, pos).line = out[i]
      BY <1>0, <3>1, PrintedPieces
    <3>3. ~Awaited(out[i])
      BY <2>1, <2>2 DEF Awaited
    <3>4. PieceAt(out, pos).line' = out[i]
      BY <1>6, <2>1, <3>2 DEF PieceAt
    <3> QED
      BY <2>1, <3>3, <3>4 DEF Awaited
  <2>5. BufferInv'
    BY <2>1, <2>4 DEF BufferInv
  <2> QED
    BY <2>3, <2>5
<1>7. CASE HostSteps
  <2>1. UNCHANGED out
    BY <1>7 DEF HostSteps, target
  <2> QED
    BY <1>1, <1>3, <1>5, <1>6, <1>7, <2>1 DEF HostSteps
<1> QED
  BY <1>0, <1>2, <1>4, <1>7, OtherMoves

\* The report that is offered for confirmation stays among those printed.
LEMMA ConfirmingStep ==
    ASSUME HostTypes, UnsentInv, BufferInv, ConfirmationIsFresh, TargetInv, SuccessInv,
           [CPNext]_allVars
    PROVE  ConfirmationIsFresh'
<1>0. /\ out \in Seq(Markers) /\ typed \in Seq(CommandPieces)
      /\ \A i \in 1..Len(out) : i \in 1..Len(out') /\ out'[i] = out[i]
  BY TargetSide DEF TargetInv, TypeOK, HostTypes
<1>1. CASE phase' # "confirming"
  BY <1>1 DEF ConfirmationIsFresh
<1>2. CASE UNCHANGED <<phase, token, inventory>>
  <2> SUFFICES ASSUME phase = "confirming"
               PROVE  \E i \in 1..Len(out') :
                        out'[i] = [Marker("preflight-success", token')
                                     EXCEPT !.inventory = inventory']
    BY <1>2 DEF ConfirmationIsFresh
  <2>1. PICK i \in 1..Len(out) :
           out[i] = [Marker("preflight-success", token) EXCEPT !.inventory = inventory]
    BY DEF ConfirmationIsFresh
  <2> QED
    BY <1>0, <1>2, <2>1
<1>3. CASE Reported /\ UNCHANGED out
  <2>1. PICK i \in 1..Len(out) : /\ out[i].kind = "preflight-success"
                                 /\ out[i].session = token
                                 /\ inventory' = out[i].inventory
    BY <1>3 DEF Reported
  <2>2. out[i] = [Marker("preflight-success", token) EXCEPT !.inventory = inventory']
    BY <2>1 DEF TargetInv, ReportInv
  <2>3. token' = token
    BY <1>3 DEF Reported, Same
  <2> QED
    BY <1>3, <2>2, <2>3 DEF ConfirmationIsFresh
<1>4. CASE StartConsole \/ OpenConsole(out) \/ ProbeAgain \/ TypePhrase
  BY <1>1, <1>4 DEF StartConsole, OpenConsole, ProbeAgain, TypePhrase
<1>5. CASE WriteSome \/ Listens
  BY <1>2, <1>5 DEF WriteSome, Listens, Same
<1>6. CASE Answered \/ Completed \/ Ended
  BY <1>1, <1>6 DEF Answered, AfterReady, Completed, Ended, Fail, End
<1>7. CASE HostSteps
  BY <1>0, <1>3, <1>4, <1>5, <1>6, <1>7, HostMoves DEF target
<1>8. CASE ~HostSteps
  BY <1>0, <1>2, <1>6, <1>8, OtherMoves DEF hostVars
<1> QED
  BY <1>7, <1>8

-----------------------------------------------------------------------------
(* The run of the target *)

LEMMA CommandStays ==
    ASSUME [CPNext]_allVars, ~ShellReads
    PROVE  UNCHANGED <<cmd, used, before>>
<1>1. CASE HostSteps
  BY <1>1 DEF HostSteps, target, run
<1>2. CASE TargetAlone
  BY <1>2, CommandKept DEF TargetAlone, vars, run
<1>3. CASE Unplug
  BY <1>3 DEF Unplug, Hangup, run
<1> QED
  BY <1>1, <1>2, <1>3, Steps

\* While nothing is in doubt, a line read finds the storage untouched.
LEMMA FirstRun ==
    ASSUME HostTypes, TokenInv, JobInv, TargetInv, SuccessInv, ~doubt, verdict # "complete",
           typed # <<>>
    PROVE  cmd.kind # "install"
<1> SUFFICES ASSUME cmd.kind = "install" PROVE FALSE
  OBVIOUS
<1>1. phase = "install" /\ cmd.session = token
  BY DEF JobInv
<1>2. cmd \in Commands
  BY DEF TargetInv, TypeOK
<1>3. token \in used
  BY <1>1, <1>2 DEF SuccessInv
<1> QED
  BY <1>1, <1>3 DEF TokenInv

LEMMA JobStep ==
    ASSUME HostTypes, UnsentInv, BufferInv, TokenInv, JobInv, VerdictInv, TargetInv,
           SuccessInv,
           [CPNext]_allVars
    PROVE  JobInv'
<1> SUFFICES ASSUME ~doubt', verdict' # "complete" PROVE JobInv'
  BY DEF JobInv
<1>0. /\ out \in Seq(Markers) /\ typed \in Seq(CommandPieces) /\ Len(typed) \in Nat
      /\ TypeOK /\ ConfirmInv
  BY DEF TargetInv, TypeOK, HostTypes
<1>1. CASE ~HostSteps /\ UNCHANGED hostVars
  <2>1. PICK m \in 0..Len(typed) : typed' = SubSeq(typed, m + 1, Len(typed))
    <3>1. CASE Ended
      BY <1>1, <3>1 DEF Ended, Fail, End, hostVars
    <3> QED
      BY <1>0, <1>1, <3>1, OtherMoves
  <2>2. /\ UNCHANGED <<phase, token, doubt, verdict>> /\ ~doubt /\ verdict # "complete"
    BY <1>1 DEF hostVars
  <2>3. \A k \in 1..Len(typed') : typed'[k].line.kind = "install" =>
           phase' = "install" /\ typed'[k].line.session = token'
    <3>1. /\ Len(typed') = Len(typed) - m
          /\ \A k \in 1..(Len(typed) - m) : typed'[k] = typed[k + m]
             /\ k + m \in 1..Len(typed)
      BY <1>0, <2>1, Rest
    <3> QED
      BY <2>2, <3>1 DEF JobInv
  <2>4. ASSUME UNCHANGED <<cmd, before>>, [Next]_vars \/ Echo PROVE JobInv'
    <3>1. cmd.kind # "install" => UNCHANGED <<qspi, layout>>
      BY <1>0, <2>4, Harmless DEF Echo, store
    <3> QED
      BY <2>2, <2>3, <2>4, <3>1 DEF JobInv
  <2>5. ASSUME NEW k \in 1..Len(typed), NEW c \in Commands, Start(c),
               c.kind = typed[k].line.kind, c.session = typed[k].line.session
        PROVE  JobInv'
    <3>1. cmd.kind # "install"
      <4>1. typed # <<>>
        BY <1>0, <2>5
      <4> QED
        BY <2>2, <4>1, FirstRun
    <3>2. qspi = "factory" /\ \A d \in Disks : layout[d] = "foreign"
      BY <2>2, <3>1 DEF JobInv
    <3>3. cmd' = c /\ before' = qspi /\ UNCHANGED <<qspi, layout>>
      BY <2>5 DEF Start, store
    <3>4. c.kind = "install" => phase = "install" /\ c.session = token
      BY <2>2, <2>5 DEF JobInv
    <3> QED
      BY <2>2, <2>3, <3>2, <3>3, <3>4 DEF JobInv
  <2>6. CASE ShellReads
    <3>1. UNCHANGED target => UNCHANGED <<cmd, before>> /\ UNCHANGED vars
      BY DEF target, run, vars
    <3>2. Echo => UNCHANGED <<cmd, before>>
      BY DEF Echo, run
    <3> QED
      BY <1>0, <2>4, <2>5, <2>6, <3>1, <3>2, LineTaken
  <2> QED
    BY <1>0, <2>4, <2>6, CommandStays, TargetMoves
<1>2. CASE Ended /\ UNCHANGED <<cmd, before, qspi, layout>> /\ typed' \in {typed, <<>>}
  <2>1. phase # "install" /\ ~doubt
    BY <1>2 DEF Ended, Fail, End
  <2>2. verdict # "complete"
    BY <1>2 DEF Ended, VerdictInv
  <2>3. /\ \A k \in 1..Len(typed') : typed'[k].line.kind # "install"
        /\ cmd.kind # "install" /\ qspi = "factory"
             /\ \A d \in Disks : layout[d] = "foreign"
    BY <1>2, <2>1, <2>2 DEF JobInv
  <2> QED
    BY <1>2, <2>3 DEF JobInv
<1>3. CASE ~HostSteps /\ Ended /\ typed' = <<>>
  <2>1. ~doubt /\ phase # "install"
    BY <1>3 DEF Ended, Fail, End
  <2>2. verdict # "complete"
    BY <1>3 DEF Ended, VerdictInv
  <2>3. CASE ShellReads
    BY <1>1, <1>3, <2>3 DEF ShellReads
  <2>4. CASE ~ShellReads
    <3>1. UNCHANGED <<cmd, before>> /\ ([Next]_vars \/ Echo)
      BY <1>0, <2>4, CommandStays, TargetMoves
    <3>2. cmd.kind # "install"
      BY <2>1, <2>2 DEF JobInv
    <3>3. UNCHANGED <<qspi, layout>>
      BY <1>0, <3>1, <3>2, Harmless DEF Echo, store
    <3> QED
      BY <1>2, <1>3, <3>1, <3>3
  <2> QED
    BY <2>3, <2>4
<1>4. CASE HostSteps
  <2>0. UNCHANGED <<cmd, before, qspi, layout>>
    BY <1>4 DEF HostSteps, target, run, store
  <2>1. ASSUME UNCHANGED <<doubt, typed>>, phase # "install", verdict # "complete"
        PROVE JobInv'
    BY <2>0, <2>1 DEF JobInv
  <2>2. phase # "idle" => verdict # "complete"
    BY DEF VerdictInv
  <2>3. CASE StartConsole
    BY <2>1, <2>3 DEF StartConsole
  <2>4. CASE OpenConsole(out) \/ TypePhrase
    BY <2>1, <2>2, <2>4 DEF OpenConsole, TypePhrase
  <2>5. CASE ProbeAgain \/ Answered \/ Reported
    BY <2>1, <2>2, <2>5 DEF ProbeAgain, Answered, AfterReady, Reported, Same
  <2>6. CASE Listens
    BY <2>0, <2>6 DEF Listens, Same, JobInv
  <2>7. CASE Completed
    BY <2>7 DEF Completed, End
  <2>8. CASE WriteSome
    <3>1. PICK c \in Lines :
             /\ c.kind = Begins
             /\ c.session = token
             /\ typed' \in {typed \o Pieces(c), typed \o <<[line |-> c, last |-> FALSE]>>,
                            typed \o <<[line |-> c, last |-> TRUE]>>}
      BY <2>8, Written
    <3>2. /\ UNCHANGED <<phase, token, doubt, verdict>>
          /\ phase \in {"probing", "preflight", "install"}
      BY <2>8 DEF WriteSome, Writing
    <3>3. ~doubt /\ verdict # "complete"
      BY <3>2
    <3> DEFINE first == [line |-> c, last |-> FALSE]
               final == [line |-> c, last |-> TRUE]
    <3>4. /\ first \in CommandPieces /\ first.line = c
          /\ final \in CommandPieces /\ final.line = c /\ Pieces(c) = <<first, final>>
      BY DEF CommandPieces, Pieces
    <3> HIDE DEF first, final
    <3>5. PICK s \in Seq(CommandPieces) :
             typed' = typed \o s /\ \A j \in 1..Len(s) : s[j].line = c
      <4>1. \A p \in {first, final} :
              <<p>> \in Seq(CommandPieces) /\ \A j \in 1..Len(<<p>>) : <<p>>[j].line = c
        BY <3>4
      <4>2. /\ <<first, final>> \in Seq(CommandPieces)
            /\ \A j \in 1..Len(<<first, final>>) : <<first, final>>[j].line = c
        BY <3>4
      <4>3. \/ typed' = typed \o <<first>> \/ typed' = typed \o <<final>>
            \/ typed' = typed \o <<first, final>>
        BY <3>1, <3>4 DEF first, final
      <4> QED
        BY <4>1, <4>2, <4>3
    <3>6. \A k \in 1..Len(typed') : \/ k \in 1..Len(typed) /\ typed'[k] = typed[k]
                                    \/ typed'[k].line = c
      <4> SUFFICES ASSUME NEW k \in 1..Len(typed'), k \notin 1..Len(typed)
                   PROVE  typed'[k].line = c
        BY <1>0, <3>5, Joined
      <4>1. Len(s) \in Nat /\ Len(typed') = Len(typed) + Len(s)
        BY <1>0, <3>5, Joined
      <4>2. k - Len(typed) \in 1..Len(s) /\ k = Len(typed) + (k - Len(typed))
        BY <1>0, <4>1
      <4>3. typed'[Len(typed) + (k - Len(typed))] = s[k - Len(typed)]
        BY <1>0, <3>5, <4>2, Joined
      <4> QED
        BY <3>5, <4>2, <4>3
    <3>7. c.kind = "install" => phase = "install"
      BY <3>1, <3>2 DEF Begins
    <3> QED
      BY <2>0, <3>1, <3>2, <3>3, <3>6, <3>7 DEF JobInv
  <2>9. CASE Ended /\ UNCHANGED typed
    BY <1>2, <2>0, <2>9
  <2> QED
    BY <1>0, <1>4, <2>3, <2>4, <2>5, <2>6, <2>7, <2>8, <2>9, HostMoves
<1> QED
  BY <1>0, <1>1, <1>3, <1>4, OtherMoves

LEMMA VerdictStep ==
    ASSUME HostTypes, UnsentInv, BufferInv, TokenInv, VerdictInv, TargetInv, SuccessInv,
           [CPNext]_allVars
    PROVE  VerdictInv'
<1> SUFFICES ASSUME verdict' = "complete" PROVE phase' = "idle" /\ typed' = <<>> /\ Claimed'
  BY DEF VerdictInv
<1>0. /\ out \in Seq(Markers) /\ typed \in Seq(CommandPieces)
      /\ \A i \in 1..Len(out) : i \in 1..Len(out') /\ out'[i] = out[i]
  BY TargetSide DEF TargetInv, TypeOK, HostTypes
<1>1. ~Ended
  BY DEF Ended, Fail, End
<1>2. CASE HostSteps
  <2>0. UNCHANGED <<cmd, out>>
    BY <1>2 DEF HostSteps, target, run
  <2>1. CASE Completed
    <3>1. PICK i \in 1..Len(out) : out[i].kind = "success" /\ out[i].session = token
      BY <2>1 DEF Completed
    <3>2. token \in used
      BY <3>1 DEF SuccessInv
    <3>3. typed = <<>> /\ cmd.session = token
      BY <2>1, <3>2 DEF Completed, Waiting, TokenInv
    <3> QED
      BY <2>0, <2>1, <3>1, <3>3 DEF Completed, Same, End, Claimed
  <2>2. CASE StartConsole
    BY <2>2 DEF StartConsole
  <2>3. ASSUME phase # "idle", UNCHANGED verdict PROVE FALSE
    BY <2>3 DEF VerdictInv
  <2>4. CASE OpenConsole(out) \/ ProbeAgain \/ WriteSome \/ TypePhrase
    BY <2>3, <2>4 DEF OpenConsole, ProbeAgain, WriteSome, TypePhrase, Waiting, Writing
  <2>5. CASE Listens \/ Answered \/ Reported
    BY <2>3, <2>5 DEF Listens, Answered, AfterReady, Reported, Waiting
  <2> QED
    BY <1>0, <1>1, <1>2, <2>1, <2>2, <2>4, <2>5, HostMoves
<1>3. CASE ~HostSteps
  <2>1. PICK m \in 0..Len(typed) : typed' = SubSeq(typed, m + 1, Len(typed))
             /\ UNCHANGED hostVars
    BY <1>0, <1>1, <1>3, OtherMoves
  <2>2. verdict = "complete" /\ UNCHANGED phase
    BY <2>1 DEF hostVars
  <2>3. phase = "idle" /\ typed = <<>> /\ Claimed
    BY <2>2 DEF VerdictInv
  <2>4. typed' = <<>>
    BY <2>1, <2>3
  <2>5. ~ShellReads
    BY <2>3, LineTaken, <1>0
  <2>6. UNCHANGED cmd
    BY <2>5, CommandStays
  <2>7. Claimed'
    BY <1>0, <2>3, <2>6 DEF Claimed
  <2> QED
    BY <2>2, <2>3, <2>4, <2>7
<1> QED
  BY <1>2, <1>3

-----------------------------------------------------------------------------
(* The invariant holds *)

LEMMA IInvInit == CPInit => IInv
<1> SUFFICES ASSUME CPInit PROVE IInv
  OBVIOUS
<1>1. TargetInv /\ SuccessInv
  BY TargetInit, SuccessInit DEF CPInit
<1>2. HostTypes
  <2>1. guided \in BOOLEAN /\ doubt \in BOOLEAN
    BY DEF CPInit, ConsoleInit
  <2>2. pos \in 0..(2 * Len(out))
    BY DEF CPInit, ConsoleInit, Init
  <2> QED
    BY <2>1, <2>2 DEF CPInit, ConsoleInit, HostTypes, Phases
<1>3. UnsentInv /\ TokenInv /\ BufferInv /\ VerdictInv
  BY DEF CPInit, ConsoleInit, Init, UnsentInv, TokenInv, BufferInv, VerdictInv, Waiting
<1>4. JobInv
  BY DEF CPInit, ConsoleInit, Init, JobInv
<1>5. NothingHalfTyped /\ NoMarkerMissed /\ ConfirmationIsFresh
  BY DEF CPInit, ConsoleInit, NothingHalfTyped, NoMarkerMissed, ConfirmationIsFresh, Waiting
<1> QED
  BY <1>1, <1>2, <1>3, <1>4, <1>5 DEF IInv

LEMMA IInvNext == IInv /\ [CPNext]_allVars => IInv'
<1> SUFFICES ASSUME IInv, [CPNext]_allVars PROVE IInv'
  OBVIOUS
<1>1. /\ HostTypes /\ UnsentInv /\ TokenInv /\ BufferInv /\ JobInv /\ VerdictInv
      /\ NothingHalfTyped /\ NoMarkerMissed /\ ConfirmationIsFresh
      /\ TargetInv /\ SuccessInv
  BY DEF IInv
<1>2. TargetInv' /\ SuccessInv'
  BY <1>1, TargetSide DEF HostTypes
<1>3. HostTypes' /\ UnsentInv' /\ TokenInv'
  BY <1>1, TypesStep, UnsentStep, TokenStep
<1>4. BufferInv' /\ NoMarkerMissed' /\ ConfirmationIsFresh' /\ NothingHalfTyped'
  BY <1>1, BufferStep, ConfirmingStep, WholeStep
<1>5. JobInv' /\ VerdictInv'
  BY <1>1, JobStep, VerdictStep
<1> QED
  BY <1>2, <1>3, <1>4, <1>5 DEF IInv

\* Whatever the console, its user, the cable and the target do, the invariant holds.
LEMMA Always == CPSpec => []IInv
BY IInvInit, IInvNext, PTL DEF CPSpec

\* What the console waits for an answer to lies in the terminal to its newline,
\* however short the writes were (write_all).
THEOREM TypedWhole == CPSpec => []NothingHalfTyped
<1>1. IInv => NothingHalfTyped
  BY DEF IInv
<1> QED
  BY <1>1, Always, PTL

\* The terminal marker of the awaited session is never read and overlooked,
\* however the reads cut the lines and whatever the probes left in ready_buffer
\* (stream_until, parse_marker).
THEOREM MarkerSafety == CPSpec => []NoMarkerMissed
<1>1. IInv => NoMarkerMissed
  BY DEF IInv
<1> QED
  BY <1>1, Always, PTL

\* The fingerprint whose phrase is asked for was printed by the target for this
\* run's preflight (run_console, inventory_from_preflight_marker).
THEOREM ConfirmationSafety == CPSpec => []ConfirmationIsFresh
<1>1. IInv => ConfirmationIsFresh
  BY DEF IInv
<1> QED
  BY <1>1, Always, PTL

-----------------------------------------------------------------------------
(* The console's promise *)

\* What the console shows, in terms of what decides it.
LEMMA ShownMeans ==
    ASSUME VerdictInv
    PROVE  /\ Shown = "complete" <=> verdict = "complete"
           /\ Shown = "unknown" <=> verdict # "complete" /\ doubt
           /\ Shown = "writing" <=> verdict # "complete" /\ ~doubt /\ phase = "install"
           /\ Shown = "safe" <=> verdict # "complete" /\ ~doubt /\ phase # "install"
<1>1. verdict = "complete" => Shown = "complete"
  BY DEF Shown, VerdictInv
<1>2. verdict # "complete" /\ doubt => Shown = "unknown"
  BY DEF Shown
<1>3. verdict # "complete" /\ ~doubt /\ phase = "install" => Shown = "writing"
  BY DEF Shown
<1>4. verdict # "complete" /\ ~doubt /\ phase # "install" => Shown = "safe"
  BY DEF Shown
<1> QED
  BY <1>1, <1>2, <1>3, <1>4

LEMMA ShownAfter ==
    ASSUME VerdictInv'
    PROVE  /\ Shown' = "complete" <=> verdict' = "complete"
           /\ Shown' = "unknown" <=> verdict' # "complete" /\ doubt'
           /\ Shown' = "writing" <=> verdict' # "complete" /\ ~doubt' /\ phase' = "install"
           /\ Shown' = "safe" <=> verdict' # "complete" /\ ~doubt' /\ phase' # "install"
<1>1. verdict' = "complete" => Shown' = "complete"
  BY DEF Shown, VerdictInv
<1>2. verdict' # "complete" /\ doubt' => Shown' = "unknown"
  BY DEF Shown
<1>3. verdict' # "complete" /\ ~doubt' /\ phase' = "install" => Shown' = "writing"
  BY DEF Shown
<1>4. verdict' # "complete" /\ ~doubt' /\ phase' # "install" => Shown' = "safe"
  BY DEF Shown
<1> QED
  BY <1>1, <1>2, <1>3, <1>4

\* Over a claimed success the target is at rest or ending, its storage provisioned.
LEMMA ClaimMeans ==
    ASSUME TargetInv, SuccessInv, Claimed
    PROVE  Provisioned
BY DEF TargetInv, TypeOK, SuccessInv

\* A step of the console, the storage left alone.
LEMMA ConsoleKeeps ==
    ASSUME IInv, IInv', HostSteps \/ Unplug
    PROVE  [P!Next]_(P!vars)
<1>0. /\ HostTypes /\ UnsentInv /\ TokenInv /\ BufferInv /\ JobInv /\ VerdictInv
         /\ VerdictInv'
      /\ TargetInv /\ SuccessInv
  BY DEF IInv
<1>1. UNCHANGED <<qspi, dirty, mounts, layout, os, launcher, backup, before, out, cmd>>
  BY DEF HostSteps, target, Unplug, Hangup, store, run
<1>2. Storage' = Storage
  BY <1>1 DEF Storage, Provisioned
<1>3. phase # "idle" => verdict # "complete"
  BY <1>0 DEF VerdictInv
<1>4. CASE Shown' = Shown
  BY <1>2, <1>4 DEF P!vars
<1>5. CASE verdict # "complete" /\ verdict' # "complete" /\ doubt /\ doubt'
  BY <1>0, <1>4, <1>5, ShownMeans, ShownAfter
<1>6. CASE /\ verdict # "complete" /\ verdict' # "complete" /\ ~doubt /\ ~doubt'
           /\ phase = "install" <=> phase' = "install"
  BY <1>0, <1>4, <1>6, ShownMeans, ShownAfter
<1>7. CASE /\ verdict # "complete" /\ verdict' # "complete" /\ ~doubt /\ ~doubt'
           /\ phase # "install" /\ phase' = "install"
  <2>1. Shown = "safe" /\ Shown' = "writing"
    BY <1>0, <1>7, ShownMeans, ShownAfter
  <2> QED
    BY <1>2, <2>1 DEF P!Next, P!Confirm
<1>8. ASSUME verdict # "complete", verdict' # "complete", doubt' = doubt,
             phase' = "install" \/ phase # "install"
      PROVE  [P!Next]_(P!vars)
  <2>1. doubt' \in BOOLEAN /\ doubt \in BOOLEAN
    BY <1>0, <1>8 DEF HostTypes
  <2>2. CASE doubt
    BY <1>5, <1>8, <2>2
  <2>3. CASE ~doubt
    BY <1>6, <1>7, <1>8, <2>3
  <2> QED
    BY <2>2, <2>3
<1>9. CASE StartConsole
  BY <1>8, <1>9 DEF StartConsole
<1>10. CASE OpenConsole(out) \/ TypePhrase
  BY <1>3, <1>8, <1>10 DEF OpenConsole, TypePhrase
<1>11. CASE ProbeAgain \/ WriteSome
  BY <1>3, <1>8, <1>11 DEF ProbeAgain, WriteSome, Writing
<1>12. CASE Listens \/ Answered \/ Reported
  BY <1>3, <1>8, <1>12 DEF Listens, Answered, AfterReady, Reported, Waiting
<1>13. CASE Completed
  <2>1. verdict' = "complete" /\ Claimed'
    BY <1>0, <1>13 DEF Completed, End, VerdictInv
  <2>2. Claimed
    BY <1>1, <2>1 DEF Claimed
  <2>3. Storage = "provisioned"
    BY <1>0, <2>2, ClaimMeans, StorageMeans
  <2>4. Shown \in {"writing", "unknown"} /\ Shown' = "complete"
    <3>1. phase = "install" /\ verdict # "complete"
      BY <1>3, <1>13 DEF Completed
    <3> QED
      BY <1>0, <2>1, <3>1, ShownMeans, ShownAfter
  <2> QED
    BY <1>2, <2>3, <2>4 DEF P!Next, P!Complete
<1>14. CASE Ended
  <2>1. verdict # "complete" /\ verdict' # "complete"
    BY <1>3, <1>14 DEF Ended, Fail, End
  <2>2. CASE phase # "install"
    <3>1. doubt' = doubt
      BY <1>0, <1>14, <2>2 DEF Ended, Fail, End, HostTypes
    <3> QED
      BY <1>8, <2>1, <2>2, <3>1
  <2>3. CASE phase = "install"
    <3>1. doubt' = TRUE
      BY <1>14, <2>3 DEF Ended, Fail, End
    <3>2. Shown \in {"writing", "unknown"} /\ Shown' = "unknown"
      BY <1>0, <2>1, <2>3, <3>1, ShownMeans, ShownAfter
    <3> QED
      BY <1>2, <1>4, <3>2 DEF P!Next, P!GiveUp
  <2> QED
    BY <2>2, <2>3
<1>15. out \in Seq(Markers)
  BY <1>0 DEF TargetInv, TypeOK
<1>16. CASE Unplug
  <2>1. Ended \/ UNCHANGED hostVars
    BY <1>16 DEF Unplug, Ended
  <2>2. CASE UNCHANGED hostVars
    BY <1>4, <2>2 DEF hostVars, Shown
  <2> QED
    BY <1>14, <2>1, <2>2
<1> QED
  BY <1>0, <1>9, <1>10, <1>11, <1>12, <1>13, <1>14, <1>15, <1>16, HostMoves

\* What a step of the target, or a line it takes, does to provisioned storage.
LEMMA ProvisionedKept ==
    ASSUME IInv, IInv', [CPNext]_allVars, ~HostSteps, verdict = "complete" \/ ~doubt,
           UNCHANGED verdict, Provisioned
    PROVE  Provisioned'
<1>0. /\ HostTypes /\ TokenInv /\ JobInv /\ VerdictInv /\ VerdictInv'
      /\ TargetInv /\ SuccessInv /\ TargetInv' /\ SuccessInv'
      /\ typed \in Seq(CommandPieces)
      /\ TypeOK /\ BackupInv /\ StageInv
  BY DEF IInv, HostTypes, TargetInv
<1>1. CASE verdict = "complete"
  <2>1. Claimed'
    BY <1>0, <1>1 DEF VerdictInv
  <2>2. TypeOK' /\ (Claimed' => pc' \notin Running \ {"finish"})
        /\ (Claimed' /\ pc' \in {"idle", "off", "finish"} => Provisioned')
    BY <1>0 DEF TargetInv, SuccessInv
  <2> QED
    BY <2>1, <2>2 DEF TypeOK
<1>2. CASE verdict # "complete" /\ ~doubt
  <2>1. cmd.kind = "install"
    <3>1. qspi # "factory"
      BY DEF Provisioned
    <3> QED
      BY <1>0, <1>2, <3>1 DEF JobInv
  <2>2. typed = <<>> /\ before = "factory"
    BY <1>0, <1>2, <2>1, FirstRun DEF JobInv
  <2>3. ~ShellReads
    BY <1>0, <2>2, LineTaken
  <2>4. Scripts \/ Environment \/ UNCHANGED vars
    BY <2>3, Steps DEF TargetAlone, Unplug, Environment
  <2> QED
    BY <1>0, <2>2, <2>4, ProvisionedStays
<1> QED
  BY <1>1, <1>2

\* A step of the target, or a line it takes.
LEMMA TargetKeeps ==
    ASSUME IInv, IInv', [CPNext]_allVars, TargetAlone \/ ShellReads
    PROVE  [P!Next]_(P!vars)
<1>0. /\ HostTypes /\ JobInv /\ VerdictInv /\ TargetInv /\ SuccessInv
      /\ TypeOK /\ ConfirmInv /\ typed \in Seq(CommandPieces)
  BY DEF IInv, HostTypes, TargetInv
<1>1. UNCHANGED hostVars
  BY DEF TargetAlone, ShellReads, consoleVars
<1>2. Shown' = Shown
  BY <1>1 DEF hostVars, Shown
<1>3. CASE Storage' = Storage
  BY <1>2, <1>3 DEF P!vars
<1>4. CASE HostSteps
  BY <1>4, ConsoleKeeps
<1>5. CASE Storage' # Storage /\ ~HostSteps
  <2>1. ~Echo
    <3>1. Echo => UNCHANGED <<qspi, dirty, mounts, layout, os, launcher, backup, before>>
      BY DEF Echo, store, run
    <3>2. Echo => Storage' = Storage
      BY <3>1 DEF Storage, Provisioned
    <3> QED
      BY <1>5, <3>2
  <2>2. [Next]_vars
    BY <1>0, <2>1, TargetMoves
  <2>3. Storage' \in {"changed", "provisioned"}
    BY <1>0, <1>5, <2>2, NeverRestored, StorageMeans, StorageAfter
  <2>4. ASSUME verdict = "complete" \/ ~doubt PROVE ~Provisioned
    <3>1. Provisioned => Provisioned'
      BY <1>1, <1>5, <2>4, ProvisionedKept DEF hostVars
    <3> QED
      BY <1>5, <3>1, StorageMeans, StorageAfter
  <2>5. verdict # "complete"
    BY <1>0, <2>4, ClaimMeans DEF VerdictInv
  <2>6. CASE doubt
    <3>1. Shown = "unknown"
      BY <1>0, <2>5, <2>6, ShownMeans
    <3> QED
      BY <1>2, <2>3, <3>1 DEF P!Next, P!Work
  <2>7. CASE ~doubt
    <3>1. phase = "install"
      <4> SUFFICES ASSUME phase # "install" PROVE FALSE
        OBVIOUS
      <4>1. cmd.kind # "install"
        BY <1>0, <2>5, <2>7 DEF JobInv
      <4>2. UNCHANGED <<qspi, layout>>
        BY <1>0, <2>2, <4>1, Harmless
      <4>3. qspi = "factory" /\ \A d \in Disks : layout[d] = "foreign"
        BY <1>0, <2>5, <2>7, <4>1 DEF JobInv
      <4> QED
        BY <1>5, <4>2, <4>3, StorageMeans, StorageAfter
    <3>2. Shown = "writing"
      BY <1>0, <2>5, <2>7, <3>1, ShownMeans
    <3>3. Storage # "provisioned"
      BY <2>4, <2>7, StorageMeans
    <3> QED
      BY <1>2, <2>3, <3>2, <3>3 DEF P!Next, P!Work
  <2> QED
    BY <2>6, <2>7
<1> QED
  BY <1>3, <1>4, <1>5

\* The console keeps its promise over any number of runs, abandoned ones too:
\* nothing is written before the install line, "target state is unknown" is
\* said from its first byte on, and "provisioning verified successful" only
\* over provisioned storage that no step touches again (run_console, main).
THEOREM PromiseSafety == CPSpec => PromiseKept
<1>1. CPInit => P!Init
  <2> SUFFICES ASSUME CPInit PROVE P!Init
    OBVIOUS
  <2>1. qspi = "factory" /\ \A d \in Disks : layout[d] = "foreign"
    BY DEF CPInit, Init
  <2>2. verdict = "none" /\ ~doubt /\ phase = "idle"
    BY DEF CPInit, ConsoleInit
  <2>3. Shown = "safe"
    BY <2>2, ShownMeans DEF VerdictInv
  <2> QED
    BY <2>1, <2>3, StorageMeans DEF P!Init
<1>2. IInv /\ IInv' /\ [CPNext]_allVars => [P!Next]_(P!vars)
  <2> SUFFICES ASSUME IInv, IInv', [CPNext]_allVars PROVE [P!Next]_(P!vars)
    OBVIOUS
  <2> QED
    BY Steps, ConsoleKeeps, TargetKeeps
<1> QED
  BY <1>1, <1>2, Always, PTL DEF CPSpec, PromiseKept, P!Spec
=============================================================================
