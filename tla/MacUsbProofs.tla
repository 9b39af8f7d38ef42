---------------------------- MODULE MacUsbProofs ----------------------------
(***************************************************************************)
(* Both programs that look for a board on the Mac's USB.  Of the console:  *)
(* that the listings of ioreg are understood, and that the modem it        *)
(* chooses is the only Helm recovery device there is, for any ports, names *)
(* and timing of the bus.  Of the loader: to which board its second stage  *)
(* goes, for any number of boards, runs and pulled cables.                 *)
(***************************************************************************)
EXTENDS MacUsb, FiniteSetTheorems, WellFoundedInduction, TLAPS

-----------------------------------------------------------------------------
(* The inductive invariant of Modems *)

\* The bus: modems have names of their own, and IOKit knows none that is gone.
BusInv ==
    /\ port \in [Locations -> Modem \cup {"empty", "apx", "booting"}]
    /\ name \in [Locations -> Paths \cup {None}]
    /\ since \in [Locations -> 0..Never]
    /\ \A l \in Locations : name[l] # None => port[l] \in Modem
    /\ \A l \in Locations : since[l] # Never => name[l] # None /\ since[l] <= clock
    /\ \A l, m \in Locations : name[l] = name[m] /\ name[l] # None => l = m
    /\ None \notin vacated /\ \A l \in Locations : name[l] \notin vacated

Early == {"locating", "checking", "excluding", "booting"}

\* The program: time, what it knows of the board, and that it saw no two
\* candidates.
ProgramInv ==
    /\ clock \in 0..(Deadline + 1)
    /\ phase \in {"listed", "sleeping"} => clock <= Deadline
    /\ phase = "listed" => clock < Deadline
    /\ refreshAt \in Nat
    /\ phase \in Early => candidates = {} /\ paths = {} /\ lastPaths = {None}
                      /\ refreshAt = 0
    /\ excluded \subseteq Paths
    /\ phase \in {"locating", "checking", "excluding"} => excluded = {}
    /\ guided /\ phase \notin {"locating", "failed"} => expected # None
    /\ paths \subseteq Paths \ excluded
    /\ IsFiniteSet(paths) /\ IsFiniteSet(candidates)
    /\ lastPaths \subseteq {None} \cup (Paths \ excluded)
    /\ candidates \subseteq lastPaths \ {None}
    /\ \A p, q \in lastCandidates : phase # "failed" => p = q

\* What was read of the modem q is still true of it, until its absence shows.
Read(q) ==
    \/ q \in vacated
    \/ phase = "listed" /\ q \notin paths
    \/ \E l \in Locations :
         /\ name[l] = q
         /\ q \in candidates => IsHelmRecovery(Identity(l))
         /\ IsHelmRecovery(Identity(l)) =>
              q \in candidates \/ (q \in unresolved /\ since[l] + Refresh >= refreshAt)

ReadInv ==
    phase \in {"polling", "listed", "sleeping"} =>
      /\ refreshAt <= clock + Refresh
      /\ \A q \in lastPaths \ {None} : Read(q)

\* A modem that was listed is there, or its name is not given away.
ListedInv ==
    phase = "listed" =>
      \A q \in paths : q \in vacated \/ \E l \in Locations : name[l] = q

ModemsInv ==
    /\ BusInv /\ ProgramInv /\ ReadInv /\ ListedInv
    /\ ChosenIsRecovery /\ AmbiguityRefused

-----------------------------------------------------------------------------
(* Reading a listing *)

\* A set of natural numbers has a least element.
LEMMA Least ==
    ASSUME NEW S \in SUBSET Nat, S # {}
    PROVE  \E x \in S : \A y \in S : x <= y
<1>1. PICK x \in S : \A y \in S : ~(<<y, x>> \in OpToRel(<, Nat))
  BY NatLessThanWellFounded, WFMin
<1>2. ASSUME NEW y \in S PROVE x <= y
  <2>1. x \in Nat /\ y \in Nat
    OBVIOUS
  <2>2. ~(y < x)
    BY <1>1, <2>1 DEF OpToRel
  <2> QED
    BY <2>1, <2>2
<1> QED
  BY <1>2

\* What is at least everything else in a set is its maximum.
LEMMA MaxIs ==
    ASSUME NEW S \in SUBSET Nat, NEW m \in S, \A x \in S : m >= x
    PROVE  Max(S) = m
<1>1. \A x \in S : (\A y \in S : x >= y) => x = m
  OBVIOUS
<1> QED
  BY <1>1 DEF Max

\* The stacks of a listing are what its lines make them, one after the other.
LEMMA StacksAre ==
    ASSUME NEW lines, Len(lines) \in Nat
    PROVE  /\ Stacks(lines)[0] = <<>>
           /\ \A i \in 1..Len(lines) :
                Stacks(lines)[i] = Pushed(Stacks(lines)[i - 1], lines[i])
<1> DEFINE Upto(n, h) ==
             /\ h = [i \in 0..n |-> h[i]] /\ h[0] = <<>>
             /\ \A i \in 1..n : h[i] = Pushed(h[i - 1], lines[i])
           D == {n \in 0..Len(lines) : ~\E h : Upto(n, h)}
<1>1. ASSUME D # {} PROVE FALSE
  <2>1. D \in SUBSET Nat
    OBVIOUS
  <2>2. PICK n \in D : \A m \in D : n <= m
    BY <1>1, <2>1, Least
  <2>3. n # 0
    <3> DEFINE h == [i \in 0..0 |-> <<>>]
    <3>1. h = [i \in 0..0 |-> h[i]] /\ h[0] = <<>>
      OBVIOUS
    <3>2. Upto(0, h)
      BY <3>1
    <3> QED
      BY <2>2, <3>2
  <2>4. n \in 1..Len(lines) /\ n - 1 \in 0..Len(lines) /\ n - 1 \notin D
    <3>1. n \in 0..Len(lines)
      BY <2>2
    <3> HIDE DEF D
    <3> QED
      BY <2>2, <2>3, <3>1
  <2>5. PICK h : Upto(n - 1, h)
    BY <2>4
  <2> DEFINE g == [i \in 0..n |-> IF i = n THEN Pushed(h[n - 1], lines[n]) ELSE h[i]]
  <2>6. g = [i \in 0..n |-> g[i]] /\ g[0] = <<>>
    BY <2>4, <2>5
  <2>7. ASSUME NEW i \in 1..n PROVE g[i] = Pushed(g[i - 1], lines[i])
    <3>1. i - 1 \in 0..n /\ i \in 0..n /\ i - 1 # n /\ g[i - 1] = h[i - 1]
      BY <2>4
    <3>2. CASE i = n
      BY <3>1, <3>2
    <3>3. CASE i # n
      <4>1. i \in 1..(n - 1) /\ g[i] = h[i]
        BY <2>4, <3>1, <3>3
      <4> QED
        BY <2>5, <3>1, <4>1
    <3> QED
      BY <3>2, <3>3
  <2>8. Upto(n, g)
    BY <2>6, <2>7
  <2> QED
    BY <2>2, <2>8
<1>2. Len(lines) \notin D /\ Len(lines) \in 0..Len(lines)
  BY <1>1
<1>3. PICK h : Upto(Len(lines), h)
  BY <1>2
<1> DEFINE Loop(f) == [i \in 0..Len(lines) |->
                         IF i = 0 THEN <<>> ELSE Pushed(f[i - 1], lines[i])]
           c == Stacks(lines)
<1>4. h = Loop(h)
  <2>1. \A i \in 0..Len(lines) : h[i] = IF i = 0 THEN <<>> ELSE Pushed(h[i - 1], lines[i])
    <3>1. h[0] = <<>> /\ \A i \in 1..Len(lines) : h[i] = Pushed(h[i - 1], lines[i])
      BY <1>3
    <3>2. \A i \in 0..Len(lines) : i = 0 \/ (i # 0 /\ i \in 1..Len(lines))
      OBVIOUS
    <3> QED
      BY <3>1, <3>2, Zenon
  <2> QED
    BY <1>3, <2>1
<1>5. c = CHOOSE f : f = Loop(f)
  BY DEF Stacks
<1>6. c = Loop(c)
  BY <1>4, <1>5
<1> HIDE DEF c
<1>7. \A i \in 0..Len(lines) : c[i] = IF i = 0 THEN <<>> ELSE Pushed(c[i - 1], lines[i])
  BY <1>6, Zenon
<1>8. c[0] = <<>> /\ \A i \in 1..Len(lines) : c[i] = Pushed(c[i - 1], lines[i])
  <2>1. 0 \in 0..Len(lines) /\ \A i \in 1..Len(lines) : i \in 0..Len(lines) /\ i # 0
    OBVIOUS
  <2> QED
    BY <1>7, <2>1
<1> QED
  BY <1>8 DEF c

\* A sequence of n elements.
Sized(s, n) == n \in Nat /\ s \in Seq({s[k] : k \in DOMAIN s}) /\ Len(s) = n

\* A node closes those that are not left of it, and is pushed on the others.
LEMMA NodePushed ==
    ASSUME NEW s, NEW n, Sized(s, n), NEW keep \in 0..n, NEW column \in Nat, NEW class,
           \A k \in 1..n : s[k].column \in Nat /\ (s[k].column < column <=> k <= keep)
    PROVE  /\ Len(Above(s, column)) = keep
           /\ Sized(Pushed(s, Node(column, class)), keep + 1)
           /\ \A k \in 1..keep : Pushed(s, Node(column, class))[k] = s[k]
           /\ Pushed(s, Node(column, class))[keep + 1] = Opened(Node(column, class))
<1> DEFINE X == {s[k] : k \in DOMAIN s}
           line == Node(column, class)
           t == Pushed(s, line)
           e == Opened(line)
           S == {0} \cup {k \in DOMAIN s : s[k].column < column}
           base == SubSeq(s, 1, keep)
<1>1. n \in Nat /\ s \in Seq(X) /\ DOMAIN s = 1..n /\ keep \in Nat
  BY DEF Sized
<1>2. S \in SUBSET Nat /\ keep \in S /\ \A x \in S : keep >= x
  BY <1>1
<1>3. Max(S) = keep
  BY <1>2, MaxIs
<1>4. Above(s, column) = base
  BY <1>3 DEF Above
<1>5. base \in Seq(X) /\ Len(base) = keep /\ \A k \in 1..keep : base[k] = s[k]
  BY <1>1
<1>6. line.node /\ line.column = column
  BY DEF Node
<1>7. t = Append(base, e)
  BY <1>4, <1>6 DEF Pushed
<1> HIDE DEF t, e, base, line, X
<1>8. /\ t \in Seq(X \cup {e}) /\ Len(t) = keep + 1
      /\ (\A k \in 1..keep : t[k] = base[k]) /\ t[keep + 1] = e
  <2>1. base \in Seq(X \cup {e}) /\ e \in X \cup {e}
    BY <1>5
  <2> QED
    BY <1>1, <1>5, <1>7, <2>1
<1>9. DOMAIN t = 1..(keep + 1) /\ t \in Seq({t[k] : k \in DOMAIN t})
  BY <1>1, <1>8
<1> QED
  BY <1>1, <1>4, <1>5, <1>8, <1>9 DEF Sized, t, e, line

\* A node and the identity it has.
Entry(column, class, identity) ==
    [column |-> column, class |-> class, identity |-> identity]

\* So is a device, whose node is followed by its identity.
LEMMA DevicePushed ==
    ASSUME NEW s, NEW n, Sized(s, n), NEW keep \in 0..n, NEW column \in Nat, NEW class,
           NEW identity,
           \A k \in 1..n : s[k].column \in Nat /\ (s[k].column < column <=> k <= keep),
           NEW u, u = Pushed(s, Node(column, class)),
           NEW v, v = Pushed(u, Property("identity", identity))
    PROVE  /\ Sized(v, keep + 1)
           /\ \A k \in 1..keep : v[k] = s[k]
           /\ v[keep + 1] = Entry(column, class, identity)
           /\ Sized(u, keep + 1)
           /\ Len(Above(s, column)) = keep
<1>1. /\ Sized(u, keep + 1) /\ \A k \in 1..keep : u[k] = s[k]
      /\ u[keep + 1] = Opened(Node(column, class))
      /\ Len(Above(s, column)) = keep
  BY NodePushed
<1> DEFINE m == keep + 1
           X == {u[k] : k \in DOMAIN u}
           e == [u[m] EXCEPT !.identity = identity]
<1>2. keep \in Nat /\ m \in Nat /\ m > 0 /\ u \in Seq(X) /\ Len(u) = m /\ DOMAIN u = 1..m
  BY <1>1 DEF Sized
<1>3. u[m] = [column |-> column, class |-> class, identity |-> None]
  BY <1>1 DEF Opened, Node
<1>4. e = Entry(column, class, identity)
  BY <1>3 DEF Entry
<1>5. v = [u EXCEPT ![m] = e]
  BY <1>2 DEF Pushed, Property, SetIdentity
<1> HIDE DEF e, X
<1>6. /\ v \in Seq(X \cup {e}) /\ Len(v) = m /\ DOMAIN v = 1..m
      /\ \A k \in 1..m : v[k] = IF k = m THEN e ELSE u[k]
  <2>1. u \in [1..m -> X]
    BY <1>2
  <2>2. v \in [1..m -> X \cup {e}] /\ \A k \in 1..m : v[k] = IF k = m THEN e ELSE u[k]
    BY <1>2, <1>5, <2>1
  <2> HIDE DEF m
  <2> QED
    BY <1>2, <2>2
<1>7. v \in Seq({v[k] : k \in DOMAIN v})
  BY <1>6
<1>8. Sized(v, m)
  BY <1>2, <1>6, <1>7 DEF Sized
<1>9. (\A k \in 1..keep : v[k] = s[k]) /\ v[m] = e
  BY <1>1, <1>2, <1>6
<1> QED
  BY <1>1, <1>4, <1>8, <1>9

-----------------------------------------------------------------------------
(* The listings *)

\* A finite set in some order.
LEMMA Ordered ==
    ASSUME NEW S, IsFiniteSet(S), NEW s, s = SetToSeq(S)
    PROVE  /\ Len(s) \in Nat /\ DOMAIN s = 1..Len(s)
           /\ \A k \in 1..Len(s) : s[k] \in S
           /\ \A x \in S : \E k \in 1..Len(s) : s[k] = x
           /\ \A j, k \in 1..Len(s) : s[j] = s[k] => j = k
<1> DEFINE n == Cardinality(S)
<1>1. n \in Nat /\ ExistsBijection(1..n, S)
  BY FS_CardinalityType
<1>2. PICK f \in Bijection(1..n, S) : TRUE
  BY <1>1 DEF ExistsBijection
<1>3. f \in [1..n -> S] /\ IsInjective(f)
  BY <1>2 DEF Bijection, Injection, Surjection, IsInjective
<1>4. s \in [1..n -> S] /\ IsInjective(s)
  BY <1>3 DEF SetToSeq
<1>5. IsFiniteSet(1..n) /\ Cardinality(1..n) = Cardinality(S)
  BY <1>1, FS_Interval
<1>6. s \in Injection(1..n, S)
  BY <1>4 DEF Injection, IsInjective
<1>7. s \in Surjection(1..n, S)
  BY <1>5, <1>6, FS_Injection
<1>8. Len(s) = n /\ DOMAIN s = 1..n
  BY <1>1, <1>4
<1> QED
  BY <1>1, <1>4, <1>7, <1>8 DEF Surjection, IsInjective

HubId == [kind |-> "hub", location |-> None]
InterfaceId == [kind |-> "interface", location |-> None]

\* Two sequences joined.
LEMMA Joined ==
    ASSUME NEW X, NEW s \in Seq(X), NEW t \in Seq(X)
    PROVE  /\ Len(s \o t) = Len(s) + Len(t)
           /\ \A i \in 1..Len(s) : (s \o t)[i] = s[i]
           /\ \A i \in 1..Len(t) : (s \o t)[Len(s) + i] = t[i]
OBVIOUS

\* The lines of a device.
LEMMA DeviceLinesAre ==
    ASSUME NEW l, NEW d, d = DeviceLines(l)
    PROVE  /\ d[1] = Node(2, "IOUSBHostDevice")
           /\ d[2] = Property("identity", Identity(l))
           /\ d[3] = Node(4, "IOUSBHostInterface")
           /\ d[4] = Property("identity", InterfaceId)
           /\ Len(d) = 4
BY DEF DeviceLines, InterfaceId

\* The lines of a modem.
LEMMA ModemLinesAre ==
    ASSUME NEW l, NEW d, d = ModemLines(l)
    PROVE  /\ d[1] = Node(0, "IOUSBHostDevice")
           /\ d[2] = Property("identity", HubId)
           /\ d[3] = Node(2, "IOUSBHostDevice")
           /\ d[4] = Property("identity", Identity(l))
           /\ d[5] = Node(4, "IOUSBHostInterface")
           /\ d[6] = Property("identity", InterfaceId)
           /\ d[7] = Node(6, "IOSerialBSDClient")
           /\ d[8] = Property("IOCalloutDevice", name[l])
BY DEF ModemLines, HubLines, DeviceLines, InterfaceId, HubId, Hub

\* The kinds of lines.
LEMMA LineKinds ==
    /\ \A c, class : /\ Node(c, class).node
                     /\ Node(c, class).column = c
    /\ \A key, value : /\ ~Property(key, value).node
                       /\ Property(key, value).key = key
                       /\ Property(key, value).value = value
BY DEF Node, Property

\* A line of the listing of the modems is one of the eight of some modem.
LEMMA SerialLines ==
    ASSUME NEW n, NEW modems, modems = SetToSeq(Published), n = Len(modems), n \in Nat,
           NEW lines, lines = SerialListing
    PROVE  /\ Len(lines) = 8 * n /\ DOMAIN lines = 1..(8 * n)
           /\ \A k \in 1..n : \A m \in 1..8 :
                /\ 8 * (k - 1) + m \in 1..(8 * n)
                /\ lines[8 * (k - 1) + m] = ModemLines(modems[k])[m]
           /\ \A i \in 1..(8 * n) : \E k \in 1..n : \E m \in 1..8 : i = 8 * (k - 1) + m
<1>1. lines = [i \in 1..(8 * n) |-> ModemLines(modems[(i + 7) \div 8])[((i + 7) % 8) + 1]]
  BY DEF SerialListing
<1>2. Len(lines) = 8 * n /\ DOMAIN lines = 1..(8 * n)
  <2>1. 8 * n \in Nat
    OBVIOUS
  <2> QED
    BY <1>1, <2>1
<1>3. ASSUME NEW k \in 1..n, NEW m \in 1..8
      PROVE  /\ 8 * (k - 1) + m \in 1..(8 * n)
             /\ lines[8 * (k - 1) + m] = ModemLines(modems[k])[m]
  <2> DEFINE i == 8 * (k - 1) + m
  <2>1. i \in 1..(8 * n) /\ (i + 7) \div 8 = k /\ ((i + 7) % 8) + 1 = m
    OBVIOUS
  <2> HIDE DEF i
  <2>2. lines[i] = ModemLines(modems[k])[m]
    BY <1>1, <2>1
  <2> QED
    BY <2>1, <2>2 DEF i
<1>4. ASSUME NEW i \in 1..(8 * n)
      PROVE  \E k \in 1..n : \E m \in 1..8 : i = 8 * (k - 1) + m
  <2> DEFINE k == (i + 7) \div 8
             m == ((i + 7) % 8) + 1
  <2>1. k \in 1..n /\ m \in 1..8 /\ i = 8 * (k - 1) + m
    OBVIOUS
  <2> HIDE DEF k, m
  <2> QED
    BY <2>1
<1> QED
  BY <1>2, <1>3, <1>4

\* Lines that are those of the hub, and four of each device.
AreUsb(lines, devices, n) ==
    /\ Len(lines) = 4 * n + 2
    /\ lines[1] = Node(0, "IOUSBHostDevice") /\ lines[2] = Property("identity", HubId)
    /\ \A k \in 1..n : \A m \in 1..4 :
         lines[4 * (k - 1) + m + 2] = DeviceLines(devices[k])[m]
    /\ \A i \in 1..(4 * n + 3) :
         i \in {1, 2, 4 * n + 3}
           \/ \E k \in 1..n : \E m \in 1..4 : i = 4 * (k - 1) + m + 2

\* A line of the listing of USB devices is of the hub or one of the four of some
\* device.
LEMMA UsbLines ==
    ASSUME NEW n, NEW devices, devices = SetToSeq(Attached), n = Len(devices), n \in Nat,
           NEW lines, lines = UsbListing
    PROVE  AreUsb(lines, devices, n)
<1> DEFINE body == [i \in 1..(4 * n) |->
                      DeviceLines(devices[(i + 3) \div 4])[((i + 3) % 4) + 1]]
<1>1. lines = HubLines \o body
  BY DEF UsbListing
<1>2. Len(body) = 4 * n /\ DOMAIN body = 1..(4 * n)
  <2>1. 4 * n \in Nat
    OBVIOUS
  <2> QED
    BY <2>1
<1>3. ASSUME NEW k \in 1..n, NEW m \in 1..4
      PROVE  /\ 4 * (k - 1) + m \in 1..(4 * n)
             /\ body[4 * (k - 1) + m] = DeviceLines(devices[k])[m]
  <2> DEFINE i == 4 * (k - 1) + m
  <2>1. i \in 1..(4 * n) /\ (i + 3) \div 4 = k /\ ((i + 3) % 4) + 1 = m
    OBVIOUS
  <2> HIDE DEF i
  <2>2. body[i] = DeviceLines(devices[k])[m]
    BY <2>1
  <2> QED
    BY <2>1, <2>2 DEF i
<1>7. body = [i \in 1..(4 * n) |-> body[i]]
  OBVIOUS
<1> HIDE DEF body
<1>4. /\ HubLines[1] = Node(0, "IOUSBHostDevice")
      /\ HubLines[2] = Property("identity", HubId)
      /\ Len(HubLines) = 2
  BY DEF HubLines, HubId, Hub
<1>5. /\ Len(lines) = 4 * n + 2
      /\ \A i \in 1..2 : lines[i] = HubLines[i]
      /\ \A i \in 1..(4 * n) : lines[i + 2] = body[i]
  <2> DEFINE X == {HubLines[1], HubLines[2]} \cup {body[i] : i \in 1..(4 * n)}
  <2>1. HubLines \in Seq(X)
    BY <1>4 DEF HubLines
  <2>2. body \in [1..(4 * n) -> X]
    BY <1>2, <1>7
  <2>3. body \in Seq(X)
    <3>1. 4 * n \in Nat
      OBVIOUS
    <3> QED
      BY <2>2, <3>1
  <2> HIDE DEF X
  <2>4. /\ Len(lines) = 2 + 4 * n
        /\ \A i \in 1..2 : lines[i] = HubLines[i]
        /\ \A i \in 1..(4 * n) : lines[2 + i] = body[i]
    <3>1. /\ Len(HubLines \o body) = Len(HubLines) + Len(body)
          /\ \A i \in 1..Len(HubLines) : (HubLines \o body)[i] = HubLines[i]
          /\ \A i \in 1..Len(body) : (HubLines \o body)[Len(HubLines) + i] = body[i]
      BY <2>1, <2>3, Joined
    <3> QED
      BY <1>1, <1>2, <1>4, <3>1
  <2>5. \A i \in 1..(4 * n) : 2 + i = i + 2
    OBVIOUS
  <2>6. 2 + 4 * n = 4 * n + 2
    OBVIOUS
  <2> QED
    BY <2>4, <2>5, <2>6
<1>6. ASSUME NEW i \in 1..(4 * n + 3), i \notin {1, 2, 4 * n + 3}
      PROVE  \E k \in 1..n : \E m \in 1..4 : i = 4 * (k - 1) + m + 2
  <2> DEFINE k == (i + 1) \div 4
             m == ((i + 1) % 4) + 1
  <2>1. k \in 1..n /\ m \in 1..4 /\ i = 4 * (k - 1) + m + 2
    BY <1>6
  <2> HIDE DEF k, m
  <2> QED
    BY <2>1
<1> QED
  <2>1. lines[1] = Node(0, "IOUSBHostDevice") /\ lines[2] = Property("identity", HubId)
    BY <1>4, <1>5
  <2>2. ASSUME NEW k \in 1..n, NEW m \in 1..4
        PROVE  lines[4 * (k - 1) + m + 2] = DeviceLines(devices[k])[m]
    BY <1>3, <1>5
  <2> QED
    BY <1>5, <1>6, <2>1, <2>2 DEF AreUsb

-----------------------------------------------------------------------------
(* What the listings say *)

\* A stack that a node in the first column closes.
Closable(s) == \E n \in Nat : Sized(s, n) /\ \A k \in 1..n : s[k].column \in Nat

\* Reading the lines of a modem ends on a stack of four nodes.
LEMMA ModemRead ==
    ASSUME NEW l, NEW d, d = ModemLines(l), NEW t, Closable(t[0]),
           \A m \in 1..8 : t[m] = Pushed(t[m - 1], d[m])
    PROVE  /\ Sized(t[8], 4)
           /\ t[8][1] = Entry(0, "IOUSBHostDevice", HubId)
           /\ t[8][2] = Entry(2, "IOUSBHostDevice", Identity(l))
           /\ t[8][3] = Entry(4, "IOUSBHostInterface", InterfaceId)
           /\ t[8][4].column = 6
<1>1. PICK n \in Nat : Sized(t[0], n) /\ \A k \in 1..n : t[0][k].column \in Nat
  BY DEF Closable
<1>2. /\ t[1] = Pushed(t[0], d[1]) /\ t[2] = Pushed(t[1], d[2])
      /\ t[3] = Pushed(t[2], d[3]) /\ t[4] = Pushed(t[3], d[4])
      /\ t[5] = Pushed(t[4], d[5]) /\ t[6] = Pushed(t[5], d[6])
      /\ t[7] = Pushed(t[6], d[7]) /\ t[8] = Pushed(t[7], d[8])
  OBVIOUS
<1>3. /\ d[1] = Node(0, "IOUSBHostDevice") /\ d[2] = Property("identity", HubId)
      /\ d[3] = Node(2, "IOUSBHostDevice") /\ d[4] = Property("identity", Identity(l))
      /\ d[5] = Node(4, "IOUSBHostInterface") /\ d[6] = Property("identity", InterfaceId)
      /\ d[7] = Node(6, "IOSerialBSDClient") /\ d[8] = Property("IOCalloutDevice", name[l])
  BY ModemLinesAre
<1>4. \A c, class, id : /\ Entry(c, class, id).column = c
                        /\ Entry(c, class, id).class = class
                        /\ Entry(c, class, id).identity = id
  BY DEF Entry
<1>5. Sized(t[2], 1) /\ t[2][1] = Entry(0, "IOUSBHostDevice", HubId)
  <2>1. /\ 0 \in 0..n /\ 0 \in Nat
        /\ \A k \in 1..n : t[0][k].column \in Nat /\ (t[0][k].column < 0 <=> k <= 0)
    BY <1>1
  <2>2. Sized(t[2], 0 + 1) /\ t[2][0 + 1] = Entry(0, "IOUSBHostDevice", HubId)
    BY <1>1, <1>2, <1>3, <2>1, DevicePushed
  <2> QED
    BY <2>2
<1>6. /\ Sized(t[4], 2) /\ t[4][1] = Entry(0, "IOUSBHostDevice", HubId)
      /\ t[4][2] = Entry(2, "IOUSBHostDevice", Identity(l))
  <2>1. /\ 1 \in 0..1 /\ 2 \in Nat
        /\ \A k \in 1..1 : t[2][k].column \in Nat /\ (t[2][k].column < 2 <=> k <= 1)
    BY <1>4, <1>5
  <2>2. /\ Sized(t[4], 1 + 1) /\ \A k \in 1..1 : t[4][k] = t[2][k]
        /\ t[4][1 + 1] = Entry(2, "IOUSBHostDevice", Identity(l))
    <3>1. /\ Sized(t[2], 1)
          /\ t[3] = Pushed(t[2], Node(2, "IOUSBHostDevice"))
          /\ t[4] = Pushed(t[3], Property("identity", Identity(l)))
      BY <1>2, <1>3, <1>5
    <3> QED
      BY ONLY <2>1, <3>1, DevicePushed
  <2> QED
    BY <1>5, <2>2
<1>7. /\ Sized(t[6], 3) /\ t[6][1] = Entry(0, "IOUSBHostDevice", HubId)
      /\ t[6][2] = Entry(2, "IOUSBHostDevice", Identity(l))
      /\ t[6][3] = Entry(4, "IOUSBHostInterface", InterfaceId)
  <2>1. /\ 2 \in 0..2 /\ 4 \in Nat
        /\ \A k \in 1..2 : t[4][k].column \in Nat /\ (t[4][k].column < 4 <=> k <= 2)
    BY <1>4, <1>6
  <2>2. /\ Sized(t[6], 2 + 1) /\ \A k \in 1..2 : t[6][k] = t[4][k]
        /\ t[6][2 + 1] = Entry(4, "IOUSBHostInterface", InterfaceId)
    <3>1. /\ Sized(t[4], 2)
          /\ t[5] = Pushed(t[4], Node(4, "IOUSBHostInterface"))
          /\ t[6] = Pushed(t[5], Property("identity", InterfaceId))
      BY <1>2, <1>3, <1>6
    <3> QED
      BY ONLY <2>1, <3>1, DevicePushed
  <2> QED
    BY <1>6, <2>2
<1>8. /\ Sized(t[7], 4) /\ \A k \in 1..3 : t[7][k] = t[6][k]
      /\ t[7][4] = Opened(Node(6, "IOSerialBSDClient"))
  <2>1. /\ 3 \in 0..3 /\ 6 \in Nat
        /\ \A k \in 1..3 : t[6][k].column \in Nat /\ (t[6][k].column < 6 <=> k <= 3)
    BY <1>4, <1>7
  <2>2. /\ Sized(t[7], 3 + 1) /\ \A k \in 1..3 : t[7][k] = t[6][k]
        /\ t[7][3 + 1] = Opened(Node(6, "IOSerialBSDClient"))
    <3>1. Sized(t[6], 3) /\ t[7] = Pushed(t[6], Node(6, "IOSerialBSDClient"))
      BY <1>2, <1>3, <1>7
    <3> QED
      BY ONLY <2>1, <3>1, NodePushed
  <2> QED
    BY <2>2
<1>9. t[8] = t[7]
  <2>1. ~d[8].node /\ d[8].key # "identity"
    BY <1>3, LineKinds
  <2> QED
    BY <1>2, <2>1 DEF Pushed
<1>10. t[8][4].column = 6
  BY <1>8, <1>9 DEF Opened, Node
<1> QED
  BY <1>7, <1>8, <1>9, <1>10

\* And the nearest USB device of the stack is the modem's.
LEMMA ModemParent ==
    ASSUME NEW l, NEW s, Sized(s, 4),
           s[1] = Entry(0, "IOUSBHostDevice", HubId),
           s[2] = Entry(2, "IOUSBHostDevice", Identity(l)),
           s[3] = Entry(4, "IOUSBHostInterface", InterfaceId)
    PROVE  UsbParents(s) # {} /\ NearestUsb(s).identity = Identity(l)
<1>1. \A k \in 1..3 : s[k].class = "IOUSBHostDevice" <=> k \in {1, 2}
  BY DEF Entry
<1>2. UsbParents(s) = {1, 2}
  <2>1. 1..(Len(s) - 1) = 1..3
    BY DEF Sized
  <2> QED
    BY <1>1, <2>1 DEF UsbParents
<1>3. Max(UsbParents(s)) = 2
  BY <1>2, MaxIs
<1> QED
  BY <1>2, <1>3 DEF NearestUsb, Entry

\* Every published modem is read, with the identity of its device.
LEMMA SerialRead ==
    SerialIdentities(SerialListing) =
      {[callout |-> name[l], identity |-> Identity(l)] : l \in Published}
<1> DEFINE modems == SetToSeq(Published)
           n == Len(modems)
           lines == SerialListing
           st == Stacks(lines)
           At(k) == 8 * (k - 1)
<1>1. IsFiniteSet(Published)
  BY LocationsAssumption, FS_Subset DEF Published
<1>2. /\ n \in Nat /\ DOMAIN modems = 1..n
      /\ \A k \in 1..n : modems[k] \in Published
      /\ \A l \in Published : \E k \in 1..n : modems[k] = l
  BY <1>1, Ordered
<1>3. /\ Len(lines) = 8 * n /\ DOMAIN lines = 1..(8 * n)
      /\ \A k \in 1..n : \A m \in 1..8 :
           At(k) + m \in 1..(8 * n) /\ lines[At(k) + m] = ModemLines(modems[k])[m]
      /\ \A i \in 1..(8 * n) : \E k \in 1..n : \E m \in 1..8 : i = At(k) + m
  BY <1>2, SerialLines
<1>4. st[0] = <<>> /\ \A i \in 1..(8 * n) : st[i] = Pushed(st[i - 1], lines[i])
  <2>1. Len(lines) \in Nat
    BY <1>2, <1>3
  <2> QED
    BY <1>3, <2>1, StacksAre
<1> HIDE DEF modems, n, lines, st
<1>5. ASSUME NEW k \in 1..n, Closable(st[At(k)])
      PROVE  /\ Closable(st[At(k) + 8])
             /\ UsbParents(st[At(k) + 8]) # {}
             /\ NearestUsb(st[At(k) + 8]).identity = Identity(modems[k])
  <2> DEFINE t == [m \in 0..8 |-> st[At(k) + m]]
             d == ModemLines(modems[k])
  <2>1. t[0] = st[At(k)] /\ t[8] = st[At(k) + 8]
    BY <1>2
  <2>2. ASSUME NEW m \in 1..8 PROVE t[m] = Pushed(t[m - 1], d[m])
    <3>1. /\ At(k) + m \in 1..(8 * n) /\ (At(k) + m) - 1 = At(k) + (m - 1)
          /\ m - 1 \in 0..8 /\ m \in 0..8
      BY <1>2, <1>3
    <3>2. st[At(k) + m] = Pushed(st[(At(k) + m) - 1], lines[At(k) + m])
      BY <1>4, <3>1
    <3>3. lines[At(k) + m] = d[m]
      BY <1>3
    <3>4. t[m] = st[At(k) + m] /\ t[m - 1] = st[(At(k) + m) - 1]
      BY <3>1
    <3> QED
      BY <3>2, <3>3, <3>4
  <2> HIDE DEF t, d
  <2>3. /\ Sized(t[8], 4)
        /\ t[8][1] = Entry(0, "IOUSBHostDevice", HubId)
        /\ t[8][2] = Entry(2, "IOUSBHostDevice", Identity(modems[k]))
        /\ t[8][3] = Entry(4, "IOUSBHostInterface", InterfaceId)
        /\ t[8][4].column = 6
    BY <1>5, <2>1, <2>2, ModemRead DEF d
  <2>4. UsbParents(t[8]) # {} /\ NearestUsb(t[8]).identity = Identity(modems[k])
    BY <2>3, ModemParent
  <2>5. Closable(t[8])
    <3>1. \A j \in 1..4 : t[8][j].column \in Nat
      BY <2>3 DEF Entry
    <3> QED
      BY <2>3, <3>1 DEF Closable
  <2> QED
    BY <2>1, <2>4, <2>5
<1>6. ASSUME NEW k \in 1..n PROVE Closable(st[At(k)])
  <2> DEFINE D == {j \in 1..n : ~Closable(st[At(j)])}
  <2>1. ASSUME D # {} PROVE FALSE
    <3>1. D \in SUBSET Nat
      BY <1>2
    <3>2. PICK j \in D : \A i \in D : j <= i
      BY <2>1, <3>1, Least
    <3>3. CASE j = 1
      <4>1. Sized(<<>>, 0)
        BY DEF Sized
      <4>2. Closable(<<>>) /\ At(1) = 0
        BY <4>1 DEF Closable
      <4> QED
        BY <1>4, <3>2, <3>3, <4>2
    <3>4. CASE j # 1
      <4>1. j - 1 \in 1..n /\ j - 1 \notin D /\ At(j - 1) + 8 = At(j)
        <5>1. j \in 1..n
          BY <3>2
        <5>2. j - 1 \in 1..n /\ ~(j <= j - 1) /\ At(j - 1) + 8 = At(j)
          BY <1>2, <3>4, <5>1
        <5> HIDE DEF D, At
        <5> QED
          BY <3>2, <5>2
      <4>2. Closable(st[At(j - 1)])
        BY <4>1
      <4>3. Closable(st[At(j - 1) + 8])
        BY <1>5, <4>1, <4>2
      <4> QED
        BY <3>2, <4>1, <4>3
    <3> QED
      BY <3>3, <3>4
  <2> QED
    BY <2>1
<1>7. ASSUME NEW k \in 1..n, NEW m \in 1..8
      PROVE  /\ lines[At(k) + m].node
                \/ lines[At(k) + m].key \in {"identity", "IOCalloutDevice"}
             /\ (~lines[At(k) + m].node /\ lines[At(k) + m].key = "IOCalloutDevice")
                  <=> m = 8
             /\ lines[At(k) + 8].value = name[modems[k]]
  <2>1. lines[At(k) + m] = ModemLines(modems[k])[m]
        /\ lines[At(k) + 8] = ModemLines(modems[k])[8]
    <3>1. 8 \in 1..8
      OBVIOUS
    <3> QED
      BY <1>3, <3>1
  <2> DEFINE d == ModemLines(modems[k])
  <2>2. /\ d[1].node /\ d[3].node /\ d[5].node /\ d[7].node
        /\ ~d[2].node /\ d[2].key = "identity" /\ ~d[4].node /\ d[4].key = "identity"
        /\ ~d[6].node /\ d[6].key = "identity"
        /\ ~d[8].node /\ d[8].key = "IOCalloutDevice" /\ d[8].value = name[modems[k]]
    BY ModemLinesAre, LineKinds
  <2> HIDE DEF d
  <2>3. m \in {1, 2, 3, 4, 5, 6, 7, 8}
    OBVIOUS
  <2> QED
    BY <2>1, <2>2, <2>3 DEF d
<1> DEFINE J == {j \in DOMAIN lines : /\ ~lines[j].node
                                      /\ lines[j].key = "IOCalloutDevice"
                                      /\ UsbParents(st[j]) # {}}
           E(i) == [callout |-> lines[i].value, identity |-> NearestUsb(st[i]).identity]
           Right == {[callout |-> name[l], identity |-> Identity(l)] : l \in Published}
<1>8. SerialIdentities(lines) = {E(i) : i \in J}
  BY DEF SerialIdentities, st
<1>9. ASSUME NEW k \in 1..n
      PROVE  /\ At(k) + 8 \in J
             /\ E(At(k) + 8) =
                  [callout |-> name[modems[k]], identity |-> Identity(modems[k])]
  <2>1. /\ UsbParents(st[At(k) + 8]) # {}
        /\ NearestUsb(st[At(k) + 8]).identity = Identity(modems[k])
    BY <1>5, <1>6
  <2>2. 8 \in 1..8
    OBVIOUS
  <2>3. /\ ~lines[At(k) + 8].node /\ lines[At(k) + 8].key = "IOCalloutDevice"
        /\ lines[At(k) + 8].value = name[modems[k]]
    BY <1>7, <2>2
  <2>4. At(k) + 8 \in DOMAIN lines
    BY <1>3, <2>2
  <2> HIDE DEF At
  <2> QED
    BY <2>1, <2>3, <2>4
<1>10. ASSUME NEW i \in J PROVE \E k \in 1..n : i = At(k) + 8
  <2>1. i \in 1..(8 * n) /\ ~lines[i].node /\ lines[i].key = "IOCalloutDevice"
    BY <1>3
  <2>2. PICK k \in 1..n : \E m \in 1..8 : i = At(k) + m
    BY <1>3, <2>1
  <2>3. PICK m \in 1..8 : i = At(k) + m
    BY <2>2
  <2> HIDE DEF At
  <2>4. m = 8
    BY <1>7, <2>1, <2>3
  <2> QED
    BY <2>3, <2>4
<1> HIDE DEF J, E, At
<1>11. \A e \in {E(i) : i \in J} : e \in Right
  <2> TAKE e \in {E(i) : i \in J}
  <2>1. PICK i \in J : e = E(i)
    OBVIOUS
  <2>2. PICK k \in 1..n : i = At(k) + 8
    BY <1>10
  <2>3. e = [callout |-> name[modems[k]], identity |-> Identity(modems[k])]
    BY <1>9, <2>1, <2>2
  <2> QED
    BY <1>2, <2>3
<1>12. \A e \in Right : e \in {E(i) : i \in J}
  <2> TAKE e \in Right
  <2>1. PICK l \in Published : e = [callout |-> name[l], identity |-> Identity(l)]
    OBVIOUS
  <2>2. PICK k \in 1..n : modems[k] = l
    BY <1>2
  <2> QED
    BY <1>9, <2>1, <2>2
<1> QED
  BY <1>8, <1>11, <1>12 DEF lines

\* The stack after a device of the listing of USB devices: the hub, and but for
\* the start of the listing the device and its interface.
After(s, k, l) ==
    /\ s[1] = Entry(0, "IOUSBHostDevice", HubId)
    /\ IF k = 0 THEN Sized(s, 1)
       ELSE /\ Sized(s, 3)
            /\ s[2] = Entry(2, "IOUSBHostDevice", Identity(l))
            /\ s[3] = Entry(4, "IOUSBHostInterface", InterfaceId)

\* A node in `column` keeps the first `keep` of the n nodes, and is the next.
Keeps(s, n, column, keep, next) ==
    /\ Sized(s, n) /\ keep \in 0..n /\ column \in Nat /\ next = keep + 1
    /\ \A k \in 1..n : s[k].column \in Nat /\ (s[k].column < column <=> k <= keep)

\* A stack on which a device with an identity was pushed.
WithDevice(s, column, class, identity) ==
    Pushed(Pushed(s, Node(column, class)), Property("identity", identity))

\* A stack v that is `entry` on the first `keep` nodes of s.
IsOn(v, s, column, keep, next, entry) ==
    /\ Sized(v, next) /\ v[next] = entry
    /\ \A k \in 1..keep : v[k] = s[k]
    /\ Len(Above(s, column)) = keep

\* A device is pushed on the nodes that are left of it.
LEMMA DeviceOn ==
    ASSUME NEW s, NEW n, NEW keep, NEW next, NEW column, Keeps(s, n, column, keep, next),
           NEW class, NEW identity, NEW v, v = WithDevice(s, column, class, identity)
    PROVE  IsOn(v, s, column, keep, next, Entry(column, class, identity))
BY DevicePushed DEF Keeps, WithDevice, IsOn

\* The stack before device l, after each of its lines, and what they close.
IsRead(t, j, l) ==
    /\ After(t[4], j + 1, l)
    /\ Len(Above(t[0], 2)) = 1 /\ DOMAIN t[0] = IF j = 0 THEN {1} ELSE {1, 2, 3}
    /\ Len(Above(t[2], 4)) = 2 /\ DOMAIN t[2] = {1, 2}

\* Reading the lines of a device closes the device before it, and no other.
LEMMA DeviceRead ==
    ASSUME NEW j \in Nat, NEW before, NEW l, NEW d, d = DeviceLines(l),
           NEW t, After(t[0], j, before),
           \A m \in 1..4 : t[m] = Pushed(t[m - 1], d[m])
    PROVE  IsRead(t, j, l)
<1>1. \A c, class, id : Entry(c, class, id).column = c
  BY DEF Entry
<1>2. /\ t[1] = Pushed(t[0], d[1]) /\ t[2] = Pushed(t[1], d[2])
      /\ t[3] = Pushed(t[2], d[3]) /\ t[4] = Pushed(t[3], d[4])
  OBVIOUS
<1>3. /\ t[2] = WithDevice(t[0], 2, "IOUSBHostDevice", Identity(l))
      /\ t[4] = WithDevice(t[2], 4, "IOUSBHostInterface", InterfaceId)
  BY <1>2, DeviceLinesAre DEF WithDevice
<1>4. PICK n \in Nat :
        /\ Sized(t[0], n) /\ n = (IF j = 0 THEN 1 ELSE 3)
        /\ \A k \in 1..n : t[0][k].column \in Nat /\ (t[0][k].column < 2 <=> k <= 1)
  <2>1. CASE j = 0
    <3>1. Sized(t[0], 1) /\ t[0][1].column = 0
      BY <1>1, <2>1 DEF After
    <3>2. \A k \in 1..1 : t[0][k].column \in Nat /\ (t[0][k].column < 2 <=> k <= 1)
      BY <3>1
    <3> QED
      BY <2>1, <3>1, <3>2
  <2>2. CASE j # 0
    <3>1. /\ Sized(t[0], 3) /\ t[0][1].column = 0 /\ t[0][2].column = 2
          /\ t[0][3].column = 4
      BY <1>1, <2>2 DEF After
    <3>2. \A k \in 1..3 : t[0][k].column \in Nat /\ (t[0][k].column < 2 <=> k <= 1)
      BY <3>1
    <3> QED
      BY <2>2, <3>1, <3>2
  <2> QED
    BY <2>1, <2>2
<1>5. Keeps(t[0], n, 2, 1, 2)
  BY <1>4 DEF Keeps
<1>6. /\ Sized(t[2], 2) /\ \A k \in 1..1 : t[2][k] = t[0][k]
      /\ t[2][2] = Entry(2, "IOUSBHostDevice", Identity(l))
      /\ Len(Above(t[0], 2)) = 1
  <2>1. t[2] = WithDevice(t[0], 2, "IOUSBHostDevice", Identity(l))
    BY <1>3
  <2>2. IsOn(t[2], t[0], 2, 1, 2, Entry(2, "IOUSBHostDevice", Identity(l)))
    BY ONLY <1>5, <2>1, DeviceOn
  <2> QED
    BY <2>2 DEF IsOn
<1>7. /\ Sized(t[2], 2) /\ t[2][1] = Entry(0, "IOUSBHostDevice", HubId)
      /\ t[2][2] = Entry(2, "IOUSBHostDevice", Identity(l))
  BY <1>6 DEF After
<1>8. Keeps(t[2], 2, 4, 2, 3)
  <2>1. \A k \in 1..2 : t[2][k].column \in Nat /\ (t[2][k].column < 4 <=> k <= 2)
    BY <1>1, <1>7
  <2> QED
    BY <1>7, <2>1 DEF Keeps
<1>9. /\ Sized(t[4], 3) /\ \A k \in 1..2 : t[4][k] = t[2][k]
      /\ t[4][3] = Entry(4, "IOUSBHostInterface", InterfaceId)
      /\ Len(Above(t[2], 4)) = 2
  <2>1. t[4] = WithDevice(t[2], 4, "IOUSBHostInterface", InterfaceId)
    BY <1>3
  <2>2. IsOn(t[4], t[2], 4, 2, 3, Entry(4, "IOUSBHostInterface", InterfaceId))
    BY ONLY <1>8, <2>1, DeviceOn
  <2> QED
    BY <2>2 DEF IsOn
<1>10. After(t[4], j + 1, l)
  BY <1>7, <1>9 DEF After
<1>11. DOMAIN t[0] = 1..n /\ DOMAIN t[2] = 1..2
  BY <1>4, <1>7 DEF Sized
<1>12. DOMAIN t[0] = (IF j = 0 THEN {1} ELSE {1, 2, 3}) /\ DOMAIN t[2] = {1, 2}
  <2>1. n = 1 => 1..n = {1}
    OBVIOUS
  <2>2. n = 3 => 1..n = {1, 2, 3}
    OBVIOUS
  <2>3. 1..2 = {1, 2}
    OBVIOUS
  <2> QED
    BY <1>4, <1>11, <2>1, <2>2, <2>3
<1> QED
  BY <1>6, <1>9, <1>10, <1>12 DEF IsRead, IsOn

\* What the nodes of device k find open.
Closes(st, k) ==
    /\ Len(Above(st[4 * (k - 1) + 2], 2)) = 1
    /\ DOMAIN st[4 * (k - 1) + 2] = IF k = 1 THEN {1} ELSE {1, 2, 3}
    /\ Len(Above(st[4 * (k - 1) + 4], 4)) = 2
    /\ DOMAIN st[4 * (k - 1) + 4] = {1, 2}

\* How the listing of USB devices is read: where the lines of device k end, and
\* what the stack is there.
LEMMA UsbStacks ==
    ASSUME NEW n, NEW devices, devices = SetToSeq(Attached), n = Len(devices), n \in Nat,
           NEW lines, lines = UsbListing, NEW st, st = Stacks(lines)
    PROVE  /\ st[0] = <<>> /\ After(st[2], 0, None)
           /\ \A k \in 1..n : After(st[4 * k + 2], k, devices[k]) /\ Closes(st, k)
<1> DEFINE At(k) == 4 * k + 2
           Right(k) == After(st[At(k)], k, IF k = 0 THEN None ELSE devices[k])
           D == {k \in 0..n : ~Right(k)}
<1>1. /\ Len(lines) = 4 * n + 2
      /\ lines[1] = Node(0, "IOUSBHostDevice") /\ lines[2] = Property("identity", HubId)
      /\ \A k \in 1..n : \A m \in 1..4 :
           lines[4 * (k - 1) + m + 2] = DeviceLines(devices[k])[m]
  <2>1. AreUsb(lines, devices, n)
    BY UsbLines
  <2> QED
    BY <2>1 DEF AreUsb
<1>2. st[0] = <<>> /\ \A i \in 1..(4 * n + 2) : st[i] = Pushed(st[i - 1], lines[i])
  <2>1. Len(lines) \in Nat
    BY <1>1
  <2>2. /\ Stacks(lines)[0] = <<>>
        /\ \A i \in 1..Len(lines) :
             Stacks(lines)[i] = Pushed(Stacks(lines)[i - 1], lines[i])
    BY ONLY <2>1, StacksAre
  <2> QED
    BY <1>1, <2>2
<1>3. Right(0)
  <2>1. st[1] = Pushed(st[0], lines[1]) /\ st[2] = Pushed(st[1], lines[2])
    <3>1. 1 \in 1..(4 * n + 2) /\ 2 \in 1..(4 * n + 2) /\ 1 - 1 = 0 /\ 2 - 1 = 1
      OBVIOUS
    <3> QED
      BY <1>2, <3>1
  <2>2. st[2] = WithDevice(st[0], 0, "IOUSBHostDevice", HubId)
    BY <1>1, <2>1 DEF WithDevice
  <2>3. Keeps(st[0], 0, 0, 0, 1)
    BY <1>2 DEF Keeps, Sized
  <2>4. IsOn(st[2], st[0], 0, 0, 1, Entry(0, "IOUSBHostDevice", HubId))
    BY ONLY <2>2, <2>3, DeviceOn
  <2> QED
    BY <2>4 DEF IsOn, After
<1>4. ASSUME NEW k \in 1..n, Right(k - 1) PROVE Right(k) /\ Closes(st, k)
  <2> DEFINE t == [m \in 0..4 |-> st[At(k - 1) + m]]
             d == DeviceLines(devices[k])
             before == IF k - 1 = 0 THEN None ELSE devices[k - 1]
  <2>1. t[0] = st[At(k - 1)] /\ t[4] = st[At(k)] /\ t[2] = st[4 * (k - 1) + 4]
    <3>1. /\ At(k - 1) + 0 = At(k - 1) /\ At(k - 1) + 4 = At(k)
          /\ At(k - 1) + 2 = 4 * (k - 1) + 4
          /\ 0 \in 0..4 /\ 2 \in 0..4 /\ 4 \in 0..4
      OBVIOUS
    <3> QED
      BY <3>1
  <2>2. ASSUME NEW m \in 1..4 PROVE t[m] = Pushed(t[m - 1], d[m])
    <3>1. /\ At(k - 1) + m \in 1..(4 * n + 2) /\ m \in 0..4 /\ m - 1 \in 0..4
          /\ (At(k - 1) + m) - 1 = At(k - 1) + (m - 1)
          /\ 4 * (k - 1) + m + 2 = At(k - 1) + m
      OBVIOUS
    <3>2. st[At(k - 1) + m] = Pushed(st[(At(k - 1) + m) - 1], lines[At(k - 1) + m])
      BY <1>2, <3>1
    <3>3. lines[At(k - 1) + m] = d[m]
      BY <1>1, <3>1
    <3>4. t[m] = st[At(k - 1) + m] /\ t[m - 1] = st[(At(k - 1) + m) - 1]
      BY <3>1
    <3> QED
      BY <3>2, <3>3, <3>4
  <2>3. After(t[0], k - 1, before)
    BY <1>4, <2>1
  <2> HIDE DEF t, d, before
  <2>4. k - 1 \in Nat /\ (k - 1) + 1 = k /\ k # 0
    OBVIOUS
  <2>5. IsRead(t, k - 1, devices[k])
    BY <2>2, <2>3, <2>4, DeviceRead DEF d
  <2>6. After(t[4], (k - 1) + 1, devices[k])
    BY <2>5 DEF IsRead
  <2>7. k - 1 = 0 <=> k = 1
    OBVIOUS
  <2>8. Closes(st, k)
    BY <2>1, <2>5, <2>7 DEF IsRead, Closes
  <2> HIDE DEF At
  <2> QED
    BY <2>1, <2>4, <2>6, <2>8
<1>5. ASSUME D # {} PROVE FALSE
  <2>1. D \in SUBSET Nat
    OBVIOUS
  <2>2. PICK k \in D : \A j \in D : k <= j
    BY <1>5, <2>1, Least
  <2>3. k \in 0..n /\ ~Right(k)
    BY <2>2
  <2> HIDE DEF Right
  <2>4. k \in 1..n /\ k - 1 \in 0..n /\ ~(k <= k - 1)
    BY <1>3, <2>3
  <2>5. Right(k - 1)
    BY <2>2, <2>4
  <2> QED
    BY <1>4, <2>3, <2>4, <2>5
<1>6. \A k \in 0..n : Right(k)
  BY <1>5
<1>7. After(st[2], 0, None)
  BY <1>3
<1>8. ASSUME NEW k \in 1..n PROVE After(st[4 * k + 2], k, devices[k]) /\ Closes(st, k)
  <2>1. k \in 0..n /\ k # 0 /\ k - 1 \in 0..n
    OBVIOUS
  <2>2. Right(k) /\ Right(k - 1)
    BY <1>6, <2>1
  <2>3. Closes(st, k)
    BY <1>4, <2>2
  <2> QED
    BY <2>1, <2>2, <2>3
<1> QED
  BY <1>2, <1>7, <1>8

\* What is collected at line i.
CollectedAt(lines, st, i) == Collected(st[i - 1], Popped(lines, st[i - 1], i))

\* Reading the listing collects device k at the line behind its own, and the hub
\* at the end.
CollectsUsb(lines, st, n) ==
    /\ CollectedAt(lines, st, 1) = {} /\ CollectedAt(lines, st, 2) = {}
    /\ \A k \in 1..n :
         /\ CollectedAt(lines, st, 4 * (k - 1) + 3) = IF k = 1 THEN {} ELSE {2}
         /\ \A m \in 2..4 : CollectedAt(lines, st, 4 * (k - 1) + m + 2) = {}
    /\ CollectedAt(lines, st, 4 * n + 3) = IF n = 0 THEN {1} ELSE {1, 2}

\* Where the entries are that a node in `column` closes.
Deeper(s, column) == {k \in DOMAIN s : k > Len(Above(s, column))}

\* The listing is collected so.
LEMMA UsbCollected ==
    ASSUME NEW n, NEW devices, devices = SetToSeq(Attached), n = Len(devices), n \in Nat,
           NEW lines, lines = UsbListing, NEW st, st = Stacks(lines)
    PROVE  CollectsUsb(lines, st, n)
<1>1. /\ st[0] = <<>> /\ After(st[2], 0, None)
      /\ \A k \in 1..n : After(st[4 * k + 2], k, devices[k]) /\ Closes(st, k)
  BY UsbStacks
<1>2. /\ Len(lines) = 4 * n + 2
      /\ lines[1] = Node(0, "IOUSBHostDevice") /\ lines[2] = Property("identity", HubId)
      /\ \A k \in 1..n : \A m \in 1..4 :
           lines[4 * (k - 1) + m + 2] = DeviceLines(devices[k])[m]
  <2>1. AreUsb(lines, devices, n)
    BY UsbLines
  <2> QED
    BY <2>1 DEF AreUsb
<1>3. ASSUME NEW s, NEW i, i \in 1..(4 * n + 2), ~lines[i].node
      PROVE  Popped(lines, s, i) = {}
  BY <1>2, <1>3 DEF Popped
<1>4. ASSUME NEW s, NEW i, i \in 1..(4 * n + 2), lines[i].node
      PROVE  Popped(lines, s, i) = Deeper(s, lines[i].column)
  BY <1>2, <1>4 DEF Popped, Deeper
<1>5. CollectedAt(lines, st, 1) = {}
  <2>1. 1 - 1 = 0 /\ 1 \in 1..(4 * n + 2) /\ DOMAIN st[0] = {}
    BY <1>1
  <2>2. Popped(lines, st[0], 1) = {}
    <3>1. lines[1].node
      BY <1>2, LineKinds
    <3>2. Popped(lines, st[0], 1) = Deeper(st[0], lines[1].column)
      BY <1>4, <2>1, <3>1, Zenon
    <3> QED
      BY <2>1, <3>2 DEF Deeper
  <2> QED
    BY <2>1, <2>2 DEF CollectedAt, Collected
<1>6. CollectedAt(lines, st, 2) = {}
  <2>1. 2 \in 1..(4 * n + 2) /\ ~lines[2].node
    BY <1>2, LineKinds
  <2> QED
    BY <1>3, <2>1 DEF CollectedAt, Collected
<1>7. ASSUME NEW k \in 1..n
      PROVE  /\ CollectedAt(lines, st, 4 * (k - 1) + 3) = IF k = 1 THEN {} ELSE {2}
             /\ \A m \in 2..4 : CollectedAt(lines, st, 4 * (k - 1) + m + 2) = {}
  <2> DEFINE a == 4 * (k - 1) + 2
  <2>1. /\ a + 1 \in 1..(4 * n + 2) /\ a + 2 \in 1..(4 * n + 2)
        /\ a + 3 \in 1..(4 * n + 2) /\ a + 4 \in 1..(4 * n + 2)
        /\ (a + 1) - 1 = a /\ (a + 3) - 1 = a + 2
        /\ 4 * (k - 1) + 3 = a + 1 /\ 4 * (k - 1) + 4 = a + 2
        /\ \A m \in 1..4 : 4 * (k - 1) + m + 2 = a + m
    OBVIOUS
  <2>2. /\ lines[a + 1] = Node(2, "IOUSBHostDevice")
        /\ lines[a + 2] = Property("identity", Identity(devices[k]))
        /\ lines[a + 3] = Node(4, "IOUSBHostInterface")
        /\ lines[a + 4] = Property("identity", InterfaceId)
    <3>1. 1 \in 1..4 /\ 2 \in 1..4 /\ 3 \in 1..4 /\ 4 \in 1..4
      OBVIOUS
    <3>2. \A m \in 1..4 : lines[a + m] = DeviceLines(devices[k])[m]
      BY <1>2, <2>1
    <3> HIDE DEF a
    <3> QED
      BY <3>1, <3>2, DeviceLinesAre
  <2>3. Closes(st, k)
    BY <1>1
  <2>4. k # 1 => st[a][2].class = "IOUSBHostDevice" /\ st[a][3].class # "IOUSBHostDevice"
    <3>1. ASSUME k # 1 PROVE After(st[a], k - 1, devices[k - 1])
      <4>1. k - 1 \in 1..n /\ 4 * (k - 1) + 2 = a
        BY <3>1
      <4> QED
        BY <1>1, <4>1
    <3> QED
      BY <3>1 DEF After, Entry
  <2> HIDE DEF a
  <2>5. /\ Len(Above(st[a], 2)) = 1 /\ DOMAIN st[a] = IF k = 1 THEN {1} ELSE {1, 2, 3}
        /\ Len(Above(st[a + 2], 4)) = 2 /\ DOMAIN st[a + 2] = {1, 2}
    BY <2>1, <2>3 DEF Closes, a
  <2>6. CollectedAt(lines, st, a + 1) = IF k = 1 THEN {} ELSE {2}
    <3>1. lines[a + 1].node /\ lines[a + 1].column = 2
      BY <2>2, LineKinds
    <3>2. Popped(lines, st[a], a + 1) = IF k = 1 THEN {} ELSE {2, 3}
      <4>1. Popped(lines, st[a], a + 1) = Deeper(st[a], 2)
        <5>1. a + 1 \in 1..(4 * n + 2)
          BY <2>1
        <5>2. Popped(lines, st[a], a + 1) = Deeper(st[a], lines[a + 1].column)
          BY ONLY <1>4, <3>1, <5>1, Zenon
        <5> QED
          BY <3>1, <5>2
      <4>2. Popped(lines, st[a], a + 1) = {j \in DOMAIN st[a] : j > 1}
        BY <2>5, <4>1 DEF Deeper
      <4>3. CASE k = 1
        BY <2>5, <4>2, <4>3
      <4>4. CASE k # 1
        <5>1. {j \in {1, 2, 3} : j > 1} = {2, 3}
          OBVIOUS
        <5> QED
          BY <2>5, <4>2, <4>4, <5>1
      <4> QED
        BY <4>3, <4>4
    <3> QED
      BY <2>1, <2>4, <3>2 DEF CollectedAt, Collected
  <2>7. CollectedAt(lines, st, a + 2) = {} /\ CollectedAt(lines, st, a + 4) = {}
    <3>1. ~lines[a + 2].node /\ ~lines[a + 4].node
      BY <2>2, LineKinds
    <3> QED
      BY <1>3, <2>1, <3>1 DEF CollectedAt, Collected
  <2>8. CollectedAt(lines, st, a + 3) = {}
    <3>1. lines[a + 3].node /\ lines[a + 3].column = 4
      BY <2>2, LineKinds
    <3>2. Popped(lines, st[a + 2], a + 3) = {}
      <4>1. Popped(lines, st[a + 2], a + 3) = Deeper(st[a + 2], 4)
        <5>1. a + 3 \in 1..(4 * n + 2)
          BY <2>1
        <5>2. Popped(lines, st[a + 2], a + 3) = Deeper(st[a + 2], lines[a + 3].column)
          BY ONLY <1>4, <3>1, <5>1, Zenon
        <5> QED
          BY <3>1, <5>2
      <4>2. Popped(lines, st[a + 2], a + 3) = {j \in DOMAIN st[a + 2] : j > 2}
        BY <2>5, <4>1 DEF Deeper
      <4> QED
        BY <2>5, <4>2
    <3> QED
      BY <2>1, <3>2 DEF CollectedAt, Collected
  <2>9. \A m \in 2..4 : m \in {2, 3, 4}
    OBVIOUS
  <2> QED
    BY <2>1, <2>6, <2>7, <2>8, <2>9
<1>8. CollectedAt(lines, st, 4 * n + 3) = IF n = 0 THEN {1} ELSE {1, 2}
  <2>1. (4 * n + 3) - 1 = 4 * n + 2 /\ 4 * n + 3 > Len(lines)
    BY <1>2
  <2> DEFINE s == st[4 * n + 2]
  <2>2. CollectedAt(lines, st, 4 * n + 3) =
          {k \in DOMAIN s : s[k].class = "IOUSBHostDevice"}
    BY <2>1 DEF CollectedAt, Collected, Popped
  <2>3. CASE n = 0
    <3>1. 4 * n + 2 = 2
      BY <2>3
    <3>2. DOMAIN s = {1} /\ s[1].class = "IOUSBHostDevice"
      BY <1>1, <3>1 DEF After, Sized, Entry
    <3> QED
      BY <2>2, <2>3, <3>2
  <2>4. CASE n # 0
    <3>1. n \in 1..n
      BY <2>4
    <3>2. After(s, n, devices[n])
      BY <1>1, <3>1
    <3> HIDE DEF s
    <3>3. DOMAIN s = 1..3 /\ s[1].class = "IOUSBHostDevice"
          /\ s[2].class = "IOUSBHostDevice" /\ s[3].class = "IOUSBHostInterface"
      BY <2>4, <3>2 DEF After, Sized, Entry
    <3>4. 1..3 = {1, 2, 3}
      OBVIOUS
    <3> QED
      BY <2>2, <2>4, <3>3, <3>4
  <2> QED
    BY <2>3, <2>4
<1> QED
  BY <1>5, <1>6, <1>7, <1>8 DEF CollectsUsb

\* A device as it is collected, and the hub.
Device(devices, k) ==
    [line |-> 4 * k + 3, place |-> 2, identity |-> Identity(devices[k])]
HubDevice(n) == [line |-> 4 * n + 3, place |-> 1, identity |-> HubId]

\* The USB devices that are read are the devices that are attached, and the hub.
LEMMA UsbRead ==
    ASSUME NEW n, NEW devices, devices = SetToSeq(Attached), n = Len(devices), n \in Nat
    PROVE  UsbDevices(UsbListing) = {Device(devices, k) : k \in 1..n} \cup {HubDevice(n)}
<1> DEFINE lines == UsbListing
           st == Stacks(lines)
           Found(i) == {[line |-> i, place |-> k, identity |-> st[i - 1][k].identity] :
                          k \in CollectedAt(lines, st, i)}
           Right == {Device(devices, k) : k \in 1..n} \cup {HubDevice(n)}
<1>1. /\ Len(lines) = 4 * n + 2
      /\ \A i \in 1..(4 * n + 3) :
           \/ i \in {1, 2, 4 * n + 3}
           \/ \E k \in 1..n : \E m \in 1..4 : i = 4 * (k - 1) + m + 2
  <2>1. AreUsb(lines, devices, n)
    BY UsbLines
  <2> QED
    BY <2>1 DEF AreUsb
<1>2. /\ After(st[2], 0, None)
      /\ \A k \in 1..n : After(st[4 * k + 2], k, devices[k])
  BY UsbStacks
<1>3. CollectsUsb(lines, st, n)
  BY UsbCollected
<1>4. UsbDevices(lines) = UNION {Found(i) : i \in 1..(4 * n + 3)}
  <2>1. Len(lines) + 1 = 4 * n + 3
    BY <1>1
  <2> QED
    BY <2>1 DEF UsbDevices, CollectedAt
<1> HIDE DEF lines, st
<1>5. ASSUME NEW k \in 1..n
      PROVE  /\ 2 \in CollectedAt(lines, st, 4 * k + 3)
             /\ st[(4 * k + 3) - 1][2].identity = Identity(devices[k])
             /\ 4 * k + 3 \in 1..(4 * n + 3)
  <2>1. (4 * k + 3) - 1 = 4 * k + 2 /\ 4 * k + 3 \in 1..(4 * n + 3) /\ k # 0
    OBVIOUS
  <2>2. st[4 * k + 2][2] = Entry(2, "IOUSBHostDevice", Identity(devices[k]))
    BY <1>2, <2>1 DEF After
  <2>3. CASE k = n
    <3>1. CollectedAt(lines, st, 4 * k + 3) = {1, 2}
      BY <1>3, <2>1, <2>3 DEF CollectsUsb
    <3>2. 2 \in CollectedAt(lines, st, 4 * k + 3)
      BY <3>1
    <3> QED
      BY <2>1, <2>2, <3>2 DEF Entry
  <2>4. CASE k # n
    <3>1. k + 1 \in 1..n /\ k + 1 # 1 /\ 4 * ((k + 1) - 1) + 3 = 4 * k + 3
      BY <2>4
    <3>2. CollectedAt(lines, st, 4 * k + 3) = {2}
      BY <1>3, <3>1 DEF CollectsUsb
    <3> QED
      BY <2>1, <2>2, <3>2 DEF Entry
  <2> QED
    BY <2>3, <2>4
<1>6. /\ 1 \in CollectedAt(lines, st, 4 * n + 3)
      /\ st[(4 * n + 3) - 1][1].identity = HubId
      /\ 4 * n + 3 \in 1..(4 * n + 3)
  <2>1. (4 * n + 3) - 1 = 4 * n + 2 /\ 4 * n + 3 \in 1..(4 * n + 3)
    OBVIOUS
  <2>2. st[4 * n + 2][1] = Entry(0, "IOUSBHostDevice", HubId)
    <3>1. CASE n = 0
      <4>1. 4 * n + 2 = 2
        BY <3>1
      <4> QED
        BY <1>2, <4>1 DEF After
    <3>2. CASE n # 0
      <4>1. n \in 1..n
        BY <3>2
      <4> QED
        BY <1>2, <4>1 DEF After
    <3> QED
      BY <3>1, <3>2
  <2>3. 1 \in CollectedAt(lines, st, 4 * n + 3)
    BY <1>3 DEF CollectsUsb
  <2> QED
    BY <2>1, <2>2, <2>3 DEF Entry
<1>7. ASSUME NEW i \in 1..(4 * n + 3), NEW p \in CollectedAt(lines, st, i)
      PROVE  \/ i = 4 * n + 3 /\ p = 1
             \/ \E k \in 1..n : i = 4 * k + 3 /\ p = 2
  <2>1. CASE i \in {1, 2}
    BY <1>3, <1>7, <2>1 DEF CollectsUsb
  <2>2. CASE i = 4 * n + 3
    <3>1. CASE n = 0
      BY <1>3, <1>7, <2>2, <3>1 DEF CollectsUsb
    <3>2. CASE n # 0
      <4>1. p \in {1, 2} /\ n \in 1..n
        <5>1. CollectedAt(lines, st, 4 * n + 3) = {1, 2}
          BY <1>3, <3>2 DEF CollectsUsb
        <5> QED
          BY <2>2, <3>2, <5>1
      <4> QED
        BY <2>2, <4>1
    <3> QED
      BY <3>1, <3>2
  <2>3. CASE \E k \in 1..n : \E m \in 1..4 : i = 4 * (k - 1) + m + 2
    <3>1. PICK k \in 1..n, m \in 1..4 : i = 4 * (k - 1) + m + 2
      BY <2>3
    <3>2. m = 1
      <4>1. m \in 2..4 => CollectedAt(lines, st, i) = {}
        BY <1>3, <3>1 DEF CollectsUsb
      <4> QED
        BY <4>1
    <3>3. i = 4 * (k - 1) + 3
      BY <3>1, <3>2
    <3>4. CollectedAt(lines, st, i) = IF k = 1 THEN {} ELSE {2}
      BY <1>3, <3>3 DEF CollectsUsb
    <3>5. k # 1 /\ p = 2
      BY <3>4
    <3>6. k - 1 \in 1..n
      BY <3>5
    <3> QED
      BY <3>3, <3>5, <3>6
  <2> QED
    BY <1>1, <2>1, <2>2, <2>3
<1>8. \A k \in 1..n : Device(devices, k) \in Found(4 * k + 3)
  BY <1>5 DEF Device
<1>9. HubDevice(n) \in Found(4 * n + 3)
  BY <1>6 DEF HubDevice
<1>10. ASSUME NEW i \in 1..(4 * n + 3), NEW e \in Found(i) PROVE e \in Right
  <2>1. PICK p \in CollectedAt(lines, st, i) :
          e = [line |-> i, place |-> p, identity |-> st[i - 1][p].identity]
    OBVIOUS
  <2>2. CASE i = 4 * n + 3 /\ p = 1
    <3>1. e = HubDevice(n)
      BY <1>6, <2>1, <2>2 DEF HubDevice
    <3> QED
      BY <3>1
  <2>3. CASE \E k \in 1..n : i = 4 * k + 3 /\ p = 2
    <3>1. PICK k \in 1..n : i = 4 * k + 3 /\ p = 2
      BY <2>3
    <3>2. e = Device(devices, k)
      BY <1>5, <2>1, <3>1 DEF Device
    <3> QED
      BY <3>2
  <2> QED
    BY <1>7, <2>2, <2>3
<1> HIDE DEF Found
<1>11. \A e \in UNION {Found(i) : i \in 1..(4 * n + 3)} : e \in Right
  <2> TAKE e \in UNION {Found(i) : i \in 1..(4 * n + 3)}
  <2>1. PICK i \in 1..(4 * n + 3) : e \in Found(i)
    OBVIOUS
  <2> HIDE DEF Right
  <2> QED
    BY <1>10, <2>1
<1>12. \A e \in Right : e \in UNION {Found(i) : i \in 1..(4 * n + 3)}
  <2>1. \A k \in 1..n : 4 * k + 3 \in 1..(4 * n + 3)
    OBVIOUS
  <2>2. 4 * n + 3 \in 1..(4 * n + 3)
    OBVIOUS
  <2> QED
    BY <1>8, <1>9, <2>1, <2>2
<1> QED
  BY <1>4, <1>11, <1>12 DEF lines

\* The only APX device is found, with its location; of none and of several, none.
LEMMA ApxFound ==
    LET apx == {l \in Locations : port[l] = "apx"}
    IN  IF Cardinality(apx) = 1 THEN apx = {ApxLocation} ELSE ApxLocation = None
<1> DEFINE apx == {l \in Locations : port[l] = "apx"}
           devices == SetToSeq(Attached)
           n == Len(devices)
           K == {k \in 1..n : port[devices[k]] = "apx"}
           matches == {d \in UsbDevices(UsbListing) : d.identity.kind = "apx"}
<1>1. IsFiniteSet(Attached) /\ IsFiniteSet(apx)
  BY LocationsAssumption, FS_Subset DEF Attached
<1>2. /\ n \in Nat /\ DOMAIN devices = 1..n
      /\ \A k \in 1..n : devices[k] \in Attached
      /\ \A l \in Attached : \E k \in 1..n : devices[k] = l
      /\ \A j, k \in 1..n : devices[j] = devices[k] => j = k
  BY <1>1, Ordered
<1>3. UsbDevices(UsbListing) = {Device(devices, k) : k \in 1..n} \cup {HubDevice(n)}
  BY <1>2, UsbRead
<1> HIDE DEF devices, n
<1>4. \A k \in 1..n : /\ Device(devices, k).identity.kind = port[devices[k]]
                      /\ Device(devices, k).identity.location = devices[k]
                      /\ Device(devices, k).line = 4 * k + 3
  BY DEF Device, Identity
<1>5. HubDevice(n).identity.kind # "apx"
  BY DEF HubDevice, HubId
<1>6. matches = {Device(devices, k) : k \in K}
  BY <1>3, <1>4, <1>5
<1>7. apx = {devices[k] : k \in K}
  <2>1. apx \subseteq Attached /\ Attached \subseteq Locations
    BY DEF Attached
  <2> QED
    BY <1>2, <2>1
<1>8. IsFiniteSet(matches)
  <2>1. IsFiniteSet(K)
    <3>1. IsFiniteSet(1..n)
      BY <1>2, FS_Interval
    <3> QED
      BY <3>1, FS_Subset
  <2> DEFINE f == [k \in K |-> Device(devices, k)]
  <2>2. f \in Surjection(K, matches)
    BY <1>6 DEF Surjection
  <2> QED
    BY <2>1, <2>2, FS_Surjection
<1>9. /\ Cardinality(matches) = 1 <=> \E d : matches = {d}
      /\ Cardinality(apx) = 1 <=> \E l : apx = {l}
  BY <1>1, <1>8, FS_Singleton
<1>10. ASSUME NEW j \in K, NEW k \in K, Device(devices, j) = Device(devices, k) PROVE j = k
  <2>1. j \in 1..n /\ k \in 1..n
    OBVIOUS
  <2>2. 4 * j + 3 = 4 * k + 3
    BY <1>4, <1>10, <2>1
  <2> QED
    BY <2>1, <2>2
<1>11. ApxLocation = IF Cardinality(matches) = 1
                     THEN (CHOOSE d \in matches : TRUE).identity.location ELSE None
  BY DEF ApxLocation
<1> HIDE DEF matches, apx, K
<1>12. CASE \E k : K = {k}
  <2>1. PICK k : K = {k}
    BY <1>12
  <2>2. matches = {Device(devices, k)} /\ apx = {devices[k]}
    BY <1>6, <1>7, <2>1
  <2>3. ApxLocation = Device(devices, k).identity.location
    BY <1>9, <1>11, <2>2
  <2>4. ApxLocation = devices[k]
    BY <1>4, <2>1, <2>3 DEF K
  <2> QED
    BY <1>9, <2>2, <2>4 DEF apx
<1>13. CASE ~\E k : K = {k}
  <2>1. ~\E d : matches = {d}
    <3>1. ASSUME NEW d, matches = {d} PROVE FALSE
      <4>1. PICK k \in K : Device(devices, k) = d
        BY <1>6, <3>1
      <4>2. \A j \in K : Device(devices, j) = d
        BY <1>6, <3>1
      <4>3. \A j \in K : j = k
        BY <1>10, <4>1, <4>2
      <4> QED
        BY <1>13, <4>1, <4>3
    <3> QED
      BY <3>1
  <2>2. ~\E l : apx = {l}
    <3>1. ASSUME NEW l, apx = {l} PROVE FALSE
      <4>1. PICK k \in K : devices[k] = l
        BY <1>7, <3>1
      <4>2. \A j \in K : devices[j] = l /\ j \in 1..n
        BY <1>7, <3>1 DEF K
      <4>3. \A j \in K : j = k
        BY <1>2, <4>1, <4>2
      <4> QED
        BY <1>13, <4>1, <4>3
    <3> QED
      BY <3>1
  <2> QED
    BY <1>9, <1>11, <2>1, <2>2 DEF apx
<1> QED
  BY <1>12, <1>13

\* Both listings are understood.
LEMMA Understood == ListingUnderstood
BY SerialRead, ApxFound DEF ListingUnderstood

-----------------------------------------------------------------------------
(* The bus moves *)

\* What the bus may do while the program is not looking: a modem keeps its
\* name and identity until it goes, IOKit gets to know it at the present time,
\* and the name of one that went away is kept.
BusKeeps ==
    /\ vacated \subseteq vacated'
    /\ \A l \in Locations : name[l] # None =>
         \/ name[l] \in vacated'
         \/ name'[l] = name[l] /\ port'[l] = port[l] /\ since'[l] \in {since[l], clock}

\* The numbers of the model are numbers.
LEMMA Times == Deadline \in Nat /\ Refresh \in Nat /\ Stable \in Nat /\ Never \in Nat
BY TimesAssumption DEF Never

\* A device that comes up takes a name of its own.
LEMMA ComesUp ==
    ASSUME BusInv, NEW l \in Locations, NEW kind \in Modem \cup {"apx"},
           name[l] = None, ComeUp(l, kind), UNCHANGED <<vacated, clock>>
    PROVE  BusInv' /\ BusKeeps
<1>1. since[l] = Never
  BY DEF BusInv
<1>2. /\ port' = [port EXCEPT ![l] = kind]
      /\ since' = since /\ vacated' = vacated /\ clock' = clock
  BY DEF ComeUp
<1>3. PICK p : /\ name' = [name EXCEPT ![l] = p]
               /\ p = None \/ (p \in Paths /\ p \notin vacated
                                /\ (\A m \in Locations : name[m] # p) /\ kind \in Modem)
  <2>1. CASE kind \in Modem
    BY <2>1 DEF ComeUp
  <2>2. CASE kind \notin Modem
    <3>1. name' = name
      BY <2>2 DEF ComeUp
    <3>2. name' = [name EXCEPT ![l] = None]
      BY <3>1 DEF BusInv
    <3> QED
      BY <3>2
  <2> QED
    BY <2>1, <2>2
<1>4. \A m \in Locations : /\ name'[m] = IF m = l THEN p ELSE name[m]
                           /\ port'[m] = IF m = l THEN kind ELSE port[m]
  BY <1>2, <1>3 DEF BusInv
<1>5. /\ port' \in [Locations -> Modem \cup {"empty", "apx", "booting"}]
      /\ name' \in [Locations -> Paths \cup {None}]
      /\ since' \in [Locations -> 0..Never]
  BY <1>2, <1>3 DEF BusInv
<1>6. None \notin vacated
  BY DEF BusInv
<1>7. \A m \in Locations : name'[m] # None => port'[m] \in Modem
  BY <1>3, <1>4 DEF BusInv
<1>8. \A m \in Locations : since'[m] # Never => name'[m] # None /\ since'[m] <= clock'
  BY <1>1, <1>2, <1>4 DEF BusInv
<1>9. \A m, n \in Locations : name'[m] = name'[n] /\ name'[m] # None => m = n
  BY <1>3, <1>4 DEF BusInv
<1>10. None \notin vacated' /\ \A m \in Locations : name'[m] \notin vacated'
  BY <1>2, <1>3, <1>4, <1>6 DEF BusInv
<1>11. BusInv'
  BY <1>5, <1>7, <1>8, <1>9, <1>10 DEF BusInv
<1>12. BusKeeps
  BY <1>2, <1>4 DEF BusKeeps
<1> QED
  BY <1>11, <1>12

\* Every step of the bus leaves a bus, and what a program that is not looking
\* may rely on.
LEMMA BusStep ==
    ASSUME BusInv, Bus, clock \in Nat, clock < Never
    PROVE  BusInv' /\ BusKeeps
           /\ UNCHANGED <<clock, phase, guided, expected, excluded, found>>
<1>1. PICK l \in Locations : Plug(l) \/ Booted(l) \/ Unplug(l) \/ Publish(l)
  BY DEF Bus
<1>2. CASE Plug(l)
  <2>1. name[l] = None
    BY <1>2 DEF Plug, BusInv, Modem
  <2>2. PICK kind \in Modem \cup {"apx"} : ComeUp(l, kind)
    BY <1>2 DEF Plug
  <2>3. UNCHANGED <<vacated, clock>>
    BY <1>2 DEF Plug
  <2>4. BusInv' /\ BusKeeps
    BY <2>1, <2>2, <2>3, ComesUp
  <2> QED
    BY <1>2, <2>4 DEF Plug
<1>3. CASE Booted(l)
  <2>1. name[l] = None
    BY <1>3 DEF Booted, BusInv, Modem
  <2>2. ComeUp(l, "recovery") /\ "recovery" \in Modem \cup {"apx"}
    BY <1>3 DEF Booted, Modem
  <2>3. UNCHANGED <<vacated, clock>>
    BY <1>3 DEF Booted
  <2>4. BusInv' /\ BusKeeps
    BY <2>1, <2>2, <2>3, ComesUp
  <2> QED
    BY <1>3, <2>4 DEF Booted
<1>4. CASE Unplug(l)
  <2>1. /\ port' = [port EXCEPT ![l] = "empty"]
        /\ name' = [name EXCEPT ![l] = None]
        /\ since' = [since EXCEPT ![l] = Never]
        /\ vacated' = vacated \cup ({name[l]} \ {None})
        /\ clock' = clock
    BY <1>4 DEF Unplug
  <2>2. \A m \in Locations : /\ name'[m] = IF m = l THEN None ELSE name[m]
                             /\ port'[m] = IF m = l THEN "empty" ELSE port[m]
                             /\ since'[m] = IF m = l THEN Never ELSE since[m]
    BY <2>1 DEF BusInv
  <2>3. Never \in 0..Never
    BY Times
  <2>4. /\ port' \in [Locations -> Modem \cup {"empty", "apx", "booting"}]
        /\ name' \in [Locations -> Paths \cup {None}]
        /\ since' \in [Locations -> 0..Never]
    BY <2>1, <2>3 DEF BusInv
  <2>5. None \notin vacated
    BY DEF BusInv
  <2>6. \A m \in Locations : name'[m] # None => port'[m] \in Modem
    BY <2>2 DEF BusInv
  <2>7. \A m \in Locations : since'[m] # Never => name'[m] # None /\ since'[m] <= clock'
    BY <2>1, <2>2 DEF BusInv
  <2>8. \A m, n \in Locations : name'[m] = name'[n] /\ name'[m] # None => m = n
    BY <2>2 DEF BusInv
  <2>9. None \notin vacated' /\ \A m \in Locations : name'[m] \notin vacated'
    BY <2>1, <2>2, <2>5 DEF BusInv
  <2>10. BusInv'
    BY <2>4, <2>6, <2>7, <2>8, <2>9 DEF BusInv
  <2>11. BusKeeps
    BY <2>1, <2>2 DEF BusKeeps
  <2> QED
    BY <1>4, <2>10, <2>11 DEF Unplug
<1>5. CASE Publish(l)
  <2>1. /\ name[l] # None /\ since' = [since EXCEPT ![l] = clock]
        /\ UNCHANGED <<port, name, vacated, clock>>
    BY <1>5 DEF Publish
  <2>2. clock \in 0..Never
    BY Times
  <2>3. since' \in [Locations -> 0..Never]
    BY <2>1, <2>2 DEF BusInv
  <2>4. \A m \in Locations : since'[m] = IF m = l THEN clock ELSE since[m]
    BY <2>1 DEF BusInv
  <2>5. \A m \in Locations : since'[m] # Never => name'[m] # None /\ since'[m] <= clock'
    BY <2>1, <2>4 DEF BusInv
  <2>6. BusInv'
    BY <2>1, <2>3, <2>5 DEF BusInv
  <2>7. BusKeeps
    BY <2>1, <2>4 DEF BusKeeps
  <2> QED
    BY <1>5, <2>6, <2>7 DEF Publish
<1> QED
  BY <1>1, <1>2, <1>3, <1>4, <1>5

\* The program is over, and with it the bus.
ConsoleEnded == phase \in {"failed", "chosen"}

\* What was read stays true while the bus moves.
LEMMA BusKeepsInv ==
    ASSUME ModemsInv, Bus, ~ConsoleEnded
    PROVE  ModemsInv'
<1>1. clock \in Nat /\ clock < Never
  BY Times DEF ModemsInv, ProgramInv, Never
<1>2. BusInv' /\ BusKeeps /\ UNCHANGED <<clock, phase, guided, expected, excluded, found>>
  BY <1>1, BusStep DEF ModemsInv
<1>3. /\ clock' = clock /\ phase' = phase /\ guided' = guided /\ expected' = expected
      /\ excluded' = excluded /\ paths' = paths /\ lastPaths' = lastPaths
      /\ candidates' = candidates /\ lastCandidates' = lastCandidates
      /\ unresolved' = unresolved /\ refreshAt' = refreshAt
  BY <1>2 DEF found
<1>4. ProgramInv'
  BY <1>3 DEF ModemsInv, ProgramInv
<1>5. ReadInv'
  <2> SUFFICES ASSUME phase \in {"polling", "listed", "sleeping"}
               PROVE  /\ refreshAt <= clock + Refresh
                      /\ \A q \in lastPaths \ {None} : Read(q)'
    BY <1>3 DEF ReadInv
  <2>1. refreshAt <= clock + Refresh /\ \A q \in lastPaths \ {None} : Read(q)
    BY DEF ModemsInv, ReadInv
  <2>2. ASSUME NEW q \in lastPaths \ {None} PROVE Read(q)'
    <3>1. CASE q \in vacated
      BY <1>2, <3>1 DEF BusKeeps, Read
    <3>2. CASE phase = "listed" /\ q \notin paths
      BY <1>3, <3>2 DEF Read
    <3>3. ASSUME NEW l \in Locations, name[l] = q,
                 q \in candidates => IsHelmRecovery(Identity(l)),
                 IsHelmRecovery(Identity(l)) =>
                   q \in candidates \/ (q \in unresolved /\ since[l] + Refresh >= refreshAt)
          PROVE  Read(q)'
      <4>1. CASE q \in vacated'
        BY <4>1 DEF Read
      <4>2. CASE name'[l] = name[l] /\ port'[l] = port[l] /\ since'[l] \in {since[l], clock}
        <5>1. IsHelmRecovery(Identity(l))' <=> IsHelmRecovery(Identity(l))
          BY <1>3, <4>2 DEF IsHelmRecovery, Identity
        <5>2. since[l] + Refresh >= refreshAt => since'[l] + Refresh >= refreshAt
          BY <2>1, <4>2
        <5> QED
          BY <1>3, <3>3, <4>2, <5>1, <5>2 DEF Read
      <4> QED
        BY <1>2, <3>3, <4>1, <4>2 DEF BusKeeps
    <3> QED
      BY <2>1, <3>1, <3>2, <3>3 DEF Read
  <2> QED
    BY <2>1, <2>2
<1>6. ListedInv'
  <2> SUFFICES ASSUME phase = "listed", NEW q \in paths
               PROVE  q \in vacated' \/ \E l \in Locations : name'[l] = q
    BY <1>3 DEF ListedInv
  <2>1. q \in vacated \/ \E l \in Locations : name[l] = q
    BY DEF ModemsInv, ListedInv
  <2>2. q # None
    BY NoPathAssumption DEF ModemsInv, ProgramInv
  <2> QED
    BY <1>2, <2>1, <2>2 DEF BusKeeps
<1>7. ChosenIsRecovery' /\ AmbiguityRefused'
  BY <1>3 DEF ConsoleEnded, ChosenIsRecovery, AmbiguityRefused
<1> QED
  BY <1>2, <1>4, <1>5, <1>6, <1>7 DEF ModemsInv

-----------------------------------------------------------------------------
(* The program *)

\* A set that is finite and has not more than one element.
LEMMA Alone ==
    ASSUME NEW S, IsFiniteSet(S), ~(Cardinality(S) > 1)
    PROVE  \A p, q \in S : p = q
<1> SUFFICES ASSUME NEW p \in S, NEW q \in S, p # q PROVE FALSE
  OBVIOUS
<1>1. IsFiniteSet({p, q}) /\ Cardinality({p, q}) <= Cardinality(S)
  BY FS_Subset, FS_Singleton, FS_Union
<1>2. Cardinality({p, q}) = 2
  <2>1. IsFiniteSet({p}) /\ Cardinality({p}) = 1
    BY FS_Singleton
  <2>2. Cardinality({p} \cup {q}) = 2
    BY <2>1, FS_AddElement
  <2> QED
    BY <2>2
<1>3. Cardinality(S) \in Nat
  BY FS_CardinalityType
<1> QED
  BY <1>1, <1>2, <1>3

\* The steps before the loop.
LEMMA EarlySteps ==
    ASSUME ModemsInv, Locate \/ CheckLocation \/ ExcludeExisting \/ RamBoot
    PROVE  ModemsInv'
<1>1. ASSUME UNCHANGED <<busVars, clock>> PROVE BusInv'
  BY <1>1 DEF ModemsInv, BusInv, busVars
<1>2. CASE Locate
  <2>1. /\ phase = "locating" /\ phase' \in {"checking", "failed"}
        /\ UNCHANGED <<busVars, clock, guided, excluded, found>>
        /\ guided /\ phase' # "failed" => expected' # None
    BY <1>2 DEF Locate
  <2>2. BusInv' /\ clock' = clock
    BY <1>1, <2>1
  <2>3. ProgramInv'
    BY <2>1 DEF ModemsInv, ProgramInv, Early, found
  <2>4. ReadInv' /\ ListedInv' /\ ChosenIsRecovery' /\ AmbiguityRefused'
    BY <2>1 DEF ReadInv, ListedInv, ChosenIsRecovery, AmbiguityRefused
  <2> QED
    BY <2>2, <2>3, <2>4 DEF ModemsInv
<1>3. CASE ExcludeExisting
  <2>1. /\ phase = "excluding" /\ phase' = "booting"
        /\ UNCHANGED <<busVars, clock, guided, expected, found>>
        /\ excluded' = {name[l] : l \in Locations} \ {None}
    BY <1>3 DEF ExcludeExisting
  <2>2. BusInv'
    BY <1>1, <2>1
  <2>3. excluded' \subseteq Paths
    BY <2>1 DEF ModemsInv, BusInv
  <2>4. paths = {}
    BY <2>1 DEF ModemsInv, ProgramInv, Early
  <2>5. ProgramInv'
    BY <2>1, <2>3, <2>4, NoPathAssumption DEF ModemsInv, ProgramInv, Early, found
  <2>6. ReadInv' /\ ListedInv' /\ ChosenIsRecovery' /\ AmbiguityRefused'
    BY <2>1 DEF ReadInv, ListedInv, ChosenIsRecovery, AmbiguityRefused
  <2> QED
    BY <2>2, <2>5, <2>6 DEF ModemsInv
<1>5. CASE CheckLocation
  <2>1. /\ phase = "checking" /\ phase' \in {"excluding", "failed"}
        /\ UNCHANGED <<busVars, clock, guided, expected, excluded, found>>
    BY <1>5 DEF CheckLocation
  <2>2. BusInv' /\ clock' = clock
    BY <1>1, <2>1
  <2>3. ProgramInv'
    BY <2>1 DEF ModemsInv, ProgramInv, Early, found
  <2>4. ReadInv' /\ ListedInv' /\ ChosenIsRecovery' /\ AmbiguityRefused'
    BY <2>1 DEF ReadInv, ListedInv, ChosenIsRecovery, AmbiguityRefused
  <2> QED
    BY <2>2, <2>3, <2>4 DEF ModemsInv
<1>4. CASE RamBoot
  <2>1. /\ phase = "booting" /\ phase' \in {"polling", "failed"}
        /\ UNCHANGED <<name, since, vacated, plugs, clock, guided, expected, excluded,
                       found>>
    BY <1>4 DEF RamBoot
  <2>2. BusInv'
    <3>1. CASE port' = port
      BY <2>1, <3>1 DEF ModemsInv, BusInv
    <3>2. ASSUME NEW l \in Locations, port[l] = "apx",
                 port' = [port EXCEPT ![l] = "booting"]
          PROVE  BusInv'
      <4>1. name[l] = None
        BY <3>2 DEF ModemsInv, BusInv, Modem
      <4>2. port' \in [Locations -> Modem \cup {"empty", "apx", "booting"}]
        BY <3>2 DEF ModemsInv, BusInv
      <4>3. \A m \in Locations : name'[m] # None => port'[m] \in Modem
        BY <2>1, <3>2, <4>1 DEF ModemsInv, BusInv
      <4> QED
        BY <2>1, <4>2, <4>3 DEF ModemsInv, BusInv
    <3> QED
      BY <1>4, <3>1, <3>2 DEF RamBoot
  <2>3. ProgramInv'
    BY <2>1 DEF ModemsInv, ProgramInv, Early, found
  <2>4. ReadInv'
    <3>1. lastPaths' = {None}
      BY <2>1 DEF ModemsInv, ProgramInv, Early, found
    <3>4. refreshAt' = 0
      BY <2>1 DEF ModemsInv, ProgramInv, Early, found
    <3>5. clock' = clock /\ clock \in Nat
      BY <2>1, Times DEF ModemsInv, ProgramInv
    <3>2. refreshAt' <= clock' + Refresh
      <4>1. 0 <= clock + Refresh
        BY <3>5, Times
      <4> QED
        BY <3>4, <3>5, <4>1
    <3>3. \A q \in lastPaths' \ {None} : Read(q)'
      BY <3>1
    <3> QED
      BY <3>2, <3>3 DEF ReadInv
  <2>5. ListedInv' /\ ChosenIsRecovery' /\ AmbiguityRefused'
    BY <2>1 DEF ListedInv, ChosenIsRecovery, AmbiguityRefused
  <2> QED
    BY <2>2, <2>3, <2>4, <2>5 DEF ModemsInv
<1> QED
  BY <1>2, <1>3, <1>4, <1>5

\* Listing /dev shows who went away.
LEMMA ListStep == ModemsInv /\ List => ModemsInv'
<1> SUFFICES ASSUME ModemsInv, List PROVE ModemsInv'
  OBVIOUS
<1>1. /\ phase = "polling" /\ clock < Deadline /\ phase' = "listed"
      /\ paths' = {name[l] : l \in Locations} \ ({None} \cup excluded)
      /\ vacated' = {}
      /\ UNCHANGED <<port, name, since, plugs, clock, guided, expected, excluded,
                     lastPaths, candidates, lastCandidates, unresolved, refreshAt,
                     stableSince, chosen>>
  BY DEF List
<1>2. BusInv'
  BY <1>1 DEF ModemsInv, BusInv
<1>3. paths' \subseteq Paths \ excluded
  BY <1>1 DEF ModemsInv, BusInv
<1>4. IsFiniteSet(paths')
  <2> DEFINE T == {name[l] : l \in Locations}
             f == [l \in Locations |-> name[l]]
  <2>1. f \in Surjection(Locations, T)
    BY DEF Surjection
  <2>2. IsFiniteSet(T) /\ paths' \subseteq T
    BY <1>1, <2>1, LocationsAssumption, FS_Surjection
  <2> QED
    BY <2>1, <2>2, FS_Subset
<1>5. ProgramInv'
  <2>1. /\ clock' \in 0..(Deadline + 1) /\ clock' < Deadline /\ clock' <= Deadline
        /\ refreshAt' \in Nat
    BY <1>1, Times DEF ModemsInv, ProgramInv
  <2>2. phase' \notin Early /\ phase # "failed" /\ phase \notin {"locating", "failed"}
    BY <1>1 DEF Early
  <2> QED
    BY <1>1, <1>3, <1>4, <2>1, <2>2 DEF ModemsInv, ProgramInv
<1>6. ReadInv'
  <2>1. refreshAt <= clock + Refresh /\ \A q \in lastPaths \ {None} : Read(q)
    BY <1>1 DEF ModemsInv, ReadInv
  <2>2. ASSUME NEW q \in lastPaths \ {None} PROVE Read(q)'
    <3>1. CASE q \in vacated
      <4>1. q \notin paths'
        BY <1>1, <3>1 DEF ModemsInv, BusInv
      <4> QED
        BY <1>1, <4>1 DEF Read
    <3>2. CASE q \notin vacated
      <4>1. PICK l \in Locations :
              /\ name[l] = q
              /\ q \in candidates => IsHelmRecovery(Identity(l))
              /\ IsHelmRecovery(Identity(l)) =>
                   q \in candidates \/ (q \in unresolved /\ since[l] + Refresh >= refreshAt)
        BY <1>1, <2>1, <3>2 DEF Read
      <4>2. IsHelmRecovery(Identity(l))' <=> IsHelmRecovery(Identity(l))
        BY <1>1 DEF IsHelmRecovery, Identity
      <4> QED
        BY <1>1, <4>1, <4>2 DEF Read
    <3> QED
      BY <3>1, <3>2
  <2> QED
    BY <1>1, <2>1, <2>2 DEF ReadInv
<1>7. ListedInv' /\ ChosenIsRecovery' /\ AmbiguityRefused'
  BY <1>1 DEF ListedInv, ChosenIsRecovery, AmbiguityRefused
<1> QED
  BY <1>2, <1>5, <1>6, <1>7 DEF ModemsInv

\* What classify_modems learns of a modem: nothing until it is published, and
\* then who it is.
LEMMA Classified ==
    ASSUME BusInv, NEW q \in Paths, NEW identities, NEW P,
           identities = IF P = {} THEN {} ELSE SerialIdentities(SerialListing), q \in P
    PROVE  /\ \A l \in Locations : name[l] = q /\ since[l] # Never =>
                /\ (\E i \in identities : i.callout = q /\ IsHelmRecovery(i.identity))
                     <=> IsHelmRecovery(Identity(l))
                /\ \E i \in identities : i.callout = q
           /\ \A l \in Locations : name[l] = q /\ since[l] = Never =>
                \A i \in identities : i.callout # q
           /\ (\A l \in Locations : name[l] # q) =>
                \A i \in identities : i.callout # q
<1>1. q # None
  BY NoPathAssumption
<1>2. identities = {[callout |-> name[l], identity |-> Identity(l)] : l \in Published}
  BY Understood DEF ListingUnderstood
<1>3. \A i \in identities : \E l \in Locations :
        since[l] # Never /\ i.callout = name[l] /\ i.identity = Identity(l)
  BY <1>2 DEF Published
<1>4. \A l \in Locations : since[l] # Never =>
        \E i \in identities : i.callout = name[l] /\ i.identity = Identity(l)
  <2> TAKE l \in Locations
  <2> HAVE since[l] # Never
  <2> DEFINE i == [callout |-> name[l], identity |-> Identity(l)]
  <2>1. i \in identities /\ i.callout = name[l] /\ i.identity = Identity(l)
    BY <1>2 DEF Published
  <2> QED
    BY <2>1
<1>5. \A l, m \in Locations : name[l] = q /\ name[m] = q => l = m
  BY <1>1 DEF BusInv
<1> QED
  BY <1>3, <1>4, <1>5

\* What the program knows of the modem q when it has looked.
Known(q) ==
    \/ q \in vacated
    \/ \E l \in Locations :
         /\ name[l] = q
         /\ q \in candidates' => IsHelmRecovery(Identity(l))
         /\ IsHelmRecovery(Identity(l)) =>
              \/ q \in candidates'
              \/ /\ q \in unresolved'
                 /\ since[l] + Refresh >= refreshAt'
                 /\ since[l] + Refresh > clock'

\* Reading shows what there is.
LEMMA ReadStep ==
    ASSUME ModemsInv, phase = "listed", Classify
    PROVE  /\ lastPaths' = paths /\ candidates' \subseteq paths
           /\ refreshAt' = clock + Refresh /\ clock' \in clock..(clock + 1)
           /\ \A q \in paths : Known(q)
<1> DEFINE identities == IF paths = {} THEN {} ELSE SerialIdentities(SerialListing)
<1>1. /\ candidates' = {p \in paths : \E i \in identities :
                          i.callout = p /\ IsHelmRecovery(i.identity)}
      /\ unresolved' = {p \in paths : \A i \in identities : i.callout # p}
      /\ lastPaths' = paths
      /\ refreshAt' = clock + Refresh
      /\ clock' \in clock..(clock + 1)
  BY Zenon DEF Classify
<1>3. identities = IF paths = {} THEN {} ELSE SerialIdentities(SerialListing)
  OBVIOUS
<1> HIDE DEF identities
<1>2. ASSUME NEW q \in paths PROVE Known(q)
  <2>1. q \in Paths /\ BusInv /\ clock \in Nat /\ clock < Deadline
    BY Times DEF ModemsInv, ProgramInv
  <2>2. /\ \A l \in Locations : name[l] = q /\ since[l] # Never =>
                /\ (\E i \in identities : i.callout = q /\ IsHelmRecovery(i.identity))
                     <=> IsHelmRecovery(Identity(l))
                /\ \E i \in identities : i.callout = q
        /\ \A l \in Locations : name[l] = q /\ since[l] = Never =>
                \A i \in identities : i.callout # q
    BY <1>3, <2>1, Classified
  <2>3. CASE q \in vacated
    BY <2>3 DEF Known
  <2>4. ASSUME NEW l \in Locations, name[l] = q PROVE Known(q)
    <3>1. CASE since[l] # Never
      <4>1. q \in candidates' <=> IsHelmRecovery(Identity(l))
        BY <1>1, <2>2, <2>4, <3>1
      <4> QED
        BY <2>4, <4>1 DEF Known
    <3>2. CASE since[l] = Never
      <4>1. q \in unresolved' /\ q \notin candidates'
        BY <1>1, <2>2, <2>4, <3>2
      <4>2. Never + Refresh >= clock + Refresh
        BY <2>1, Times DEF Never
      <4>3. \A c \in clock..(clock + 1) : Never + Refresh > c
        BY <2>1, Times DEF Never
      <4>4. since[l] + Refresh >= refreshAt' /\ since[l] + Refresh > clock'
        BY <1>1, <3>2, <4>2, <4>3
      <4> QED
        BY <2>4, <4>1, <4>4 DEF Known
    <3> QED
      BY <3>1, <3>2
  <2>5. q \in vacated \/ \E l \in Locations : name[l] = q
    BY DEF ModemsInv, ListedInv
  <2> QED
    BY <2>3, <2>4, <2>5
<1> QED
  BY <1>1, <1>2

\* What was read before is still good when there was nothing to read.
LEMMA NoReadStep ==
    ASSUME ModemsInv, phase = "listed", ~MustRead,
           UNCHANGED <<candidates, unresolved, lastPaths, refreshAt, clock>>
    PROVE  /\ lastPaths' = paths /\ candidates' \subseteq paths
           /\ refreshAt' <= clock + Refresh /\ clock' = clock
           /\ \A q \in paths : Known(q)
<1>1. paths = lastPaths /\ (unresolved = {} \/ ~(clock >= refreshAt))
  BY DEF MustRead
<1>2. refreshAt <= clock + Refresh /\ \A q \in lastPaths \ {None} : Read(q)
  BY DEF ModemsInv, ReadInv
<1>3. clock \in Nat /\ refreshAt \in Nat /\ since \in [Locations -> 0..Never]
  BY Times DEF ModemsInv, ProgramInv, BusInv
<1>4. ASSUME NEW q \in paths PROVE Known(q)
  <2>1. Read(q)
    BY <1>1, <1>2, NoPathAssumption DEF ModemsInv, ProgramInv
  <2>2. CASE q \in vacated
    BY <2>2 DEF Known
  <2>3. ASSUME NEW l \in Locations, name[l] = q,
               q \in candidates => IsHelmRecovery(Identity(l)),
               IsHelmRecovery(Identity(l)) =>
                 q \in candidates \/ (q \in unresolved /\ since[l] + Refresh >= refreshAt)
        PROVE  Known(q)
    <3>1. q \in unresolved /\ since[l] + Refresh >= refreshAt => since[l] + Refresh > clock
      <4>1. since[l] \in Nat
        BY <1>3, Times
      <4> QED
        BY <1>1, <1>3, <4>1, Times
    <3> QED
      BY <2>3, <3>1 DEF Known
  <2> QED
    BY <2>1, <2>2, <2>3 DEF Read
<1> QED
  BY <1>1, <1>2, <1>4 DEF ModemsInv, ProgramInv

\* Looking, and judging what was seen.
LEMMA LookStep == ModemsInv /\ Look => ModemsInv'
<1> SUFFICES ASSUME ModemsInv, Look PROVE ModemsInv'
  OBVIOUS
<1>1. /\ phase = "listed" /\ Judge
      /\ UNCHANGED <<busVars, guided, expected, excluded, paths>>
  BY DEF Look
<1>2. /\ lastPaths' = paths /\ candidates' \subseteq paths
      /\ refreshAt' \in Nat /\ refreshAt' <= clock + Refresh
      /\ clock' \in {clock, clock + 1}
      /\ \A q \in paths : Known(q)
  <2>1. clock \in Nat /\ refreshAt \in Nat
    BY Times DEF ModemsInv, ProgramInv
  <2>2. CASE MustRead
    <3>1. Classify
      BY <2>2 DEF Look
    <3>2. /\ lastPaths' = paths /\ candidates' \subseteq paths
          /\ refreshAt' = clock + Refresh /\ clock' \in clock..(clock + 1)
          /\ \A q \in paths : Known(q)
      BY <1>1, <3>1, ReadStep
    <3>3. clock + Refresh \in Nat /\ clock..(clock + 1) = {clock, clock + 1}
      BY <2>1, Times
    <3> QED
      BY <2>1, <3>2, <3>3
  <2>3. CASE ~MustRead
    <3>1. UNCHANGED <<candidates, unresolved, lastPaths, refreshAt, clock>>
      BY <2>3 DEF Look
    <3>2. /\ lastPaths' = paths /\ candidates' \subseteq paths
          /\ refreshAt' <= clock + Refresh /\ clock' = clock
          /\ \A q \in paths : Known(q)
      BY <1>1, <2>3, <3>1, NoReadStep
    <3> QED
      BY <2>1, <3>1, <3>2
  <2> QED
    BY <2>2, <2>3
<1>3. PICK now : now = clock' /\ now \in Nat /\ now <= Deadline /\ now >= clock
  <2>1. clock \in Nat /\ clock < Deadline
    BY <1>1, Times DEF ModemsInv, ProgramInv
  <2>2. \A c \in {clock, clock + 1} : c \in Nat /\ c <= Deadline /\ c >= clock
    BY <2>1, Times
  <2> QED
    BY <1>2, <2>2
<1>4. IsFiniteSet(candidates')
  BY <1>2, FS_Subset DEF ModemsInv, ProgramInv
<1>5. /\ phase' \in {"sleeping", "failed", "chosen"}
      /\ lastCandidates' = candidates'
      /\ phase' = "chosen" => chosen' \in candidates'
      /\ candidates' # lastCandidates /\ Cardinality(candidates') > 1 => phase' = "failed"
  BY <1>1 DEF Judge
<1>6. phase' # "failed" => \A p, q \in candidates' : p = q
  <2>1. CASE candidates' = lastCandidates
    BY <1>1, <2>1 DEF ModemsInv, ProgramInv
  <2>2. CASE candidates' # lastCandidates
    BY <1>4, <1>5, <2>2, Alone
  <2> QED
    BY <2>1, <2>2
<1>7. BusInv'
  <2>1. \A l \in Locations : since[l] # Never => since[l] <= now
    BY <1>1, <1>3, Times DEF ModemsInv, BusInv, ProgramInv
  <2> QED
    BY <1>1, <1>3, <2>1 DEF ModemsInv, BusInv, busVars
<1>8. ProgramInv'
  <2>1. clock' \in 0..(Deadline + 1) /\ clock' <= Deadline
    BY <1>3, Times
  <2>2. /\ phase' \notin Early
        /\ phase' \notin {"listed", "locating", "checking", "excluding"}
        /\ phase # "locating" /\ phase # "failed"
    BY <1>1, <1>5 DEF Early
  <2>3. candidates' \subseteq lastPaths' \ {None}
    BY <1>2, NoPathAssumption DEF ModemsInv, ProgramInv
  <2> QED
    BY <1>1, <1>2, <1>4, <1>5, <1>6, <2>1, <2>2, <2>3 DEF ModemsInv, ProgramInv
<1>9. \A l \in Locations : IsHelmRecovery(Identity(l))' <=> IsHelmRecovery(Identity(l))
  BY <1>1 DEF busVars, IsHelmRecovery, Identity
<1>10. ReadInv'
  <2>1. refreshAt' <= clock' + Refresh
    <3>1. clock \in Nat
      BY Times DEF ModemsInv, ProgramInv
    <3>2. ASSUME NEW r \in Nat, r <= clock + Refresh PROVE r <= now + Refresh
      <4>1. now \in Nat /\ clock <= now /\ Refresh \in Nat
        BY <1>3, Times
      <4> QED
        BY <3>1, <3>2, <4>1
    <3> QED
      BY <1>2, <1>3, <3>2
  <2>2. ASSUME NEW q \in paths PROVE Read(q)'
    BY <1>1, <1>2, <1>9 DEF Known, Read, busVars
  <2> QED
    BY <1>2, <2>1, <2>2 DEF ReadInv
<1>11. ListedInv'
  BY <1>5 DEF ListedInv
<1>12. ChosenIsRecovery'
  <2> SUFFICES ASSUME phase' = "chosen"
               PROVE  /\ chosen' \notin excluded
                      /\ guided => expected # None
                      /\ \A l \in Locations : name[l] = chosen' =>
                           port[l] = "recovery" /\ (guided => l = expected)
    BY <1>1 DEF ChosenIsRecovery, ChosenAt, busVars
  <2>1. chosen' \in paths /\ chosen' \in candidates'
    BY <1>2, <1>5
  <2>2. chosen' \in Paths /\ chosen' \notin excluded /\ (guided => expected # None)
    BY <1>1, <2>1 DEF ModemsInv, ProgramInv
  <2>3. ASSUME NEW l \in Locations, name[l] = chosen'
        PROVE  port[l] = "recovery" /\ (guided => l = expected)
    <3>1. chosen' \notin vacated
      BY <2>3 DEF ModemsInv, BusInv
    <3>2. PICK m \in Locations : name[m] = chosen' /\ IsHelmRecovery(Identity(m))
      BY <1>2, <2>1, <3>1 DEF Known
    <3>3. m = l
      BY <2>2, <2>3, <3>2, NoPathAssumption DEF ModemsInv, BusInv
    <3> QED
      BY <2>2, <3>2, <3>3 DEF IsHelmRecovery, Identity
  <2> QED
    BY <2>2, <2>3
<1>13. AmbiguityRefused'
  <2> SUFFICES ASSUME phase' = "chosen", NEW l \in Locations,
                      name[l] # chosen', name[l] # None, name[l] \in paths,
                      IsHelmRecovery(Identity(l))
               PROVE  since[l] > clock' - Refresh
    BY <1>1, <1>9 DEF AmbiguityRefused, busVars
  <2>1. name[l] \notin vacated
    BY DEF ModemsInv, BusInv
  <2>2. PICK m \in Locations :
          /\ name[m] = name[l]
          /\ IsHelmRecovery(Identity(m)) =>
               name[l] \in candidates' \/ since[m] + Refresh > clock'
    BY <1>2, <2>1 DEF Known
  <2>3. m = l
    BY <2>2 DEF ModemsInv, BusInv
  <2>4. name[l] \notin candidates'
    BY <1>5, <1>6
  <2>5. since[l] + Refresh > now /\ since[l] \in Nat
    BY <1>3, <2>2, <2>3, <2>4, Times DEF ModemsInv, BusInv
  <2>6. since[l] > now - Refresh
    BY <1>3, <2>5, Times
  <2> QED
    BY <1>3, <2>6
<1> QED
  BY <1>7, <1>8, <1>10, <1>11, <1>12, <1>13 DEF ModemsInv

\* The other steps of the program.
LEMMA OtherSteps ==
    ASSUME ModemsInv, Sleep \/ IoregFails \/ TimeOut \/ UNCHANGED vars
    PROVE  ModemsInv'
<1>1. CASE Sleep
  <2>1. /\ phase = "sleeping" /\ phase' = "polling" /\ clock' = clock + 1
        /\ UNCHANGED <<busVars, guided, expected, excluded, found>>
    BY <1>1 DEF Sleep
  <2>2. clock \in Nat /\ clock <= Deadline /\ refreshAt \in Nat
        /\ refreshAt <= clock + Refresh
    BY <2>1, Times DEF ModemsInv, ProgramInv, ReadInv
  <2>3. /\ clock + 1 \in 0..(Deadline + 1) /\ refreshAt <= clock + 1 + Refresh
        /\ \A l \in Locations : since[l] # Never => since[l] <= clock + 1
    <3>1. \A l \in Locations : since[l] # Never => since[l] \in Nat /\ since[l] <= clock
      BY Times DEF ModemsInv, BusInv
    <3> QED
      BY <2>2, <3>1, Times
  <2>4. BusInv'
    BY <2>1, <2>3 DEF ModemsInv, BusInv, busVars
  <2>5. ProgramInv'
    BY <2>1, <2>3 DEF ModemsInv, ProgramInv, Early, found
  <2>6. ReadInv'
    <3>1. ASSUME NEW q \in lastPaths \ {None} PROVE Read(q)'
      <4>1. Read(q)
        BY <2>1, <3>1 DEF ModemsInv, ReadInv
      <4> QED
        BY <2>1, <4>1 DEF Read, IsHelmRecovery, Identity, busVars, found
    <3> QED
      BY <2>1, <2>3, <3>1 DEF ReadInv, found
  <2>7. ListedInv' /\ ChosenIsRecovery' /\ AmbiguityRefused'
    BY <2>1 DEF ListedInv, ChosenIsRecovery, AmbiguityRefused
  <2> QED
    BY <2>4, <2>5, <2>6, <2>7 DEF ModemsInv
<1>2. CASE IoregFails \/ TimeOut
  <2>1. /\ phase' = "failed"
        /\ UNCHANGED <<busVars, clock, guided, expected, excluded, found>>
    BY <1>2 DEF IoregFails, TimeOut
  <2>2. phase # "locating" /\ phase \notin {"locating", "checking", "excluding"}
    BY <1>2 DEF IoregFails, TimeOut
  <2>3. BusInv'
    BY <2>1 DEF ModemsInv, BusInv, busVars
  <2>4. ProgramInv'
    BY <2>1, <2>2 DEF ModemsInv, ProgramInv, Early, found
  <2>5. ReadInv' /\ ListedInv' /\ ChosenIsRecovery' /\ AmbiguityRefused'
    BY <2>1 DEF ReadInv, ListedInv, ChosenIsRecovery, AmbiguityRefused
  <2> QED
    BY <2>3, <2>4, <2>5 DEF ModemsInv
<1>3. CASE UNCHANGED vars
  <2>1. /\ UNCHANGED <<busVars, clock, guided, expected, excluded, found>>
        /\ phase' = phase
    BY <1>3 DEF vars
  <2>2. BusInv' /\ ProgramInv' /\ ListedInv'
    BY <2>1 DEF ModemsInv, BusInv, ProgramInv, ListedInv, Early, busVars, found
  <2>3. ReadInv'
    BY <2>1 DEF ModemsInv, ReadInv, Read, IsHelmRecovery, Identity, busVars, found
  <2>4. ChosenIsRecovery' /\ AmbiguityRefused'
    BY <2>1 DEF ModemsInv, ChosenIsRecovery, ChosenAt, AmbiguityRefused, IsHelmRecovery,
                Identity, busVars, found
  <2> QED
    BY <2>2, <2>3, <2>4 DEF ModemsInv
<1> QED
  BY <1>1, <1>2, <1>3

\* Every step keeps the invariant.
LEMMA ModemsInvNext == ModemsInv /\ [Next]_vars => ModemsInv'
<1> SUFFICES ASSUME ModemsInv, [Next]_vars PROVE ModemsInv'
  OBVIOUS
<1>1. CASE phase \notin {"failed", "chosen"} /\ Bus
  BY <1>1, BusKeepsInv DEF ConsoleEnded
<1>2. CASE Locate \/ CheckLocation \/ ExcludeExisting \/ RamBoot
  BY <1>2, EarlySteps
<1>3. CASE List
  BY <1>3, ListStep
<1>4. CASE Look
  BY <1>4, LookStep
<1>5. CASE Sleep \/ IoregFails \/ TimeOut
  BY <1>5, OtherSteps
<1>6. CASE Over \/ UNCHANGED vars
  BY <1>6, OtherSteps DEF Over
<1> QED
  BY <1>1, <1>2, <1>3, <1>4, <1>5, <1>6 DEF Next

\* And it holds initially.
LEMMA ModemsInvInit == Init => ModemsInv
<1> SUFFICES ASSUME Init PROVE ModemsInv
  OBVIOUS
<1>1. BusInv
  <2>1. Never \in 0..Never
    BY Times
  <2>2. \A l \in Locations :
          name[l] = None /\ since[l] = Never /\ port[l] \in {"empty", "apx"}
    BY DEF Init
  <2> QED
    BY <2>1, <2>2 DEF Init, BusInv
<1>2. ProgramInv
  <2>1. IsFiniteSet({})
    BY FS_EmptySet
  <2> QED
    BY <2>1, Times DEF Init, ProgramInv, Early
<1>3. ReadInv /\ ListedInv /\ ChosenIsRecovery /\ AmbiguityRefused
  BY DEF Init, ReadInv, ListedInv, ChosenIsRecovery, AmbiguityRefused
<1> QED
  BY <1>1, <1>2, <1>3 DEF ModemsInv

\* The console never goes on to a modem that is not the recovery device it
\* waits for, however many devices come and go at whatever moments.
THEOREM ChosenAlways == Spec => []ChosenIsRecovery
<1>1. ModemsInv => ChosenIsRecovery
  BY DEF ModemsInv
<1> QED
  BY <1>1, ModemsInvInit, ModemsInvNext, PTL DEF Spec

\* Two recovery devices that IOKit knows are never chosen between.
THEOREM RefusedAlways == Spec => []AmbiguityRefused
<1>1. ModemsInv => AmbiguityRefused
  BY DEF ModemsInv
<1> QED
  BY <1>1, ModemsInvInit, ModemsInvNext, PTL DEF Spec

\* At every moment, reading ioreg's listings line by line gives back the bus:
\* whatever is plugged in, for any number of ports and in any order of the tree.
THEOREM UnderstoodAlways == Spec => []ListingUnderstood
BY Understood, PTL

-----------------------------------------------------------------------------
(* The native loader: its inductive invariant *)

\* What is assumed of the constants.
LEMMA Counts ==
    /\ BootromCount \in Nat /\ ArtifactCount \in Nat /\ Runs \in Nat /\ Touches \in Nat
    /\ 0 < BootromCount /\ BootromCount < ArtifactCount
    /\ NoBoard \notin Boards
  BY LoaderAssumption

Stages == {"bootrom", "mb1", "recovery", "dead"}
Places == Finding \cup Using \cup Ended

BoardsOK ==
    /\ stage \in [Boards -> Stages]
    /\ got \in [Boards -> 0..ArtifactCount]
    /\ bus \in [Boards -> {"on", "off", "pulled"}]
    /\ touches \in 0..Touches

RunOK ==
    /\ at \in Places
    /\ session \in Boards \cup {NoBoard}
    /\ session # NoBoard <=> at \in Using
    /\ sent \in 0..ArtifactCount
    /\ late \in BOOLEAN
    /\ runs \in 0..Runs

\* A live handle is that of a board on the bus.
HandleInv ==
    /\ live \in BOOLEAN
    /\ live => session \in Boards /\ bus[session] = "on"

\* How far a run has got at each of its places: the sets are sent whole.
SentInv ==
    /\ at \in {"find1", "uid"} => sent = 0
    /\ at = "send1" => sent < BootromCount
    /\ at \in {"find2", "banner", "find3"} => sent = BootromCount
    /\ at = "send2" => sent >= BootromCount /\ sent < ArtifactCount

TypeInv ==
    /\ BoardsOK
    /\ RunOK
    /\ HandleInv
    /\ SentInv
    /\ greeter \in Boards \cup {NoBoard}

\* The invariant includes type correctness.
LEMMA TypeInvType == TypeInv => LoaderTypeOK
  BY DEF TypeInv, BoardsOK, RunOK, HandleInv, Places, Stages, LoaderTypeOK

-----------------------------------------------------------------------------
(* Types *)

\* A board takes only the artifacts there are.
LEMMA TakeType ==
    ASSUME BoardsOK, NEW b \in Boards, NEW k \in 1..ArtifactCount, Take(b, k)
    PROVE  BoardsOK' /\ bus' = bus
<1>1. stage' \in [Boards -> Stages]
  BY DEF Take, BoardsOK, Stages
<1>2. k \in 0..ArtifactCount
  BY Counts
<1>3. got' \in [Boards -> 0..ArtifactCount]
  BY <1>2 DEF Take, BoardsOK
<1> QED
  BY <1>1, <1>3 DEF Take, BoardsOK

\* It holds at the start.
LEMMA TypeStart == LoaderInit => TypeInv
<1> SUFFICES ASSUME LoaderInit PROVE TypeInv
  OBVIOUS
<1>1. BoardsOK
  <2>1. bus \in [Boards -> {"on", "off", "pulled"}]
    BY DEF LoaderInit
  <2>2. 0 \in 0..ArtifactCount /\ 0 \in 0..Touches
    BY Counts
  <2> QED
    BY <2>1, <2>2 DEF LoaderInit, BoardsOK, Stages
<1>2. RunOK
  <2>1. 0 \in 0..ArtifactCount /\ 0 \in 0..Runs
    BY Counts
  <2>2. at \in Places /\ at \notin Using /\ late \in BOOLEAN
    BY DEF LoaderInit, Places, Using, Ended
  <2> QED
    BY <2>1, <2>2 DEF LoaderInit, RunOK
<1> QED
  BY <1>1, <1>2 DEF LoaderInit, TypeInv, HandleInv, SentInv

\* What only the loader's run keeps.
RunSame == UNCHANGED <<at, session, sent, late, runs>>

\* A step that leaves the run of the loader alone keeps what is known of it.
LEMMA RunKept == TypeInv /\ RunSame => RunOK' /\ SentInv'
  BY DEF TypeInv, RunOK, SentInv, RunSame

\* A handle stays that of a board on the bus when another board leaves it.
LEMMA HandleKept ==
    ASSUME TypeInv, NEW b \in Boards, RunSame, live' = live \/ Loses(b),
           live' /\ session # b => bus'[session] = bus[session],
           live' /\ session = b => bus'[b] = "on"
    PROVE  HandleInv'
<1>1. live' \in BOOLEAN /\ (live' => live) /\ session' = session
  <2>1. live \in BOOLEAN /\ session' = session
    BY DEF TypeInv, HandleInv, RunSame
  <2>2. CASE live' = live
    BY <2>1, <2>2
  <2>3. CASE Loses(b)
    BY <2>1, <2>3, Zenon DEF Loses
  <2> QED
    BY <2>2, <2>3
<1>2. live' => session \in Boards /\ bus[session] = "on"
  BY <1>1 DEF TypeInv, HandleInv
<1>3. live' => bus'[session] = "on"
  BY <1>2
<1> QED
  BY <1>1, <1>2, <1>3 DEF HandleInv

\* What boards and the operator do leaves the loader where it is.
LEMMA TypeAround ==
    ASSUME TypeInv, NEW b \in Boards,
           StartMb1(b) \/ Enumerate(b) \/ StartRecovery(b)
             \/ PullCable(b) \/ PlugIn(b) \/ Reset(b)
    PROVE  TypeInv'
<1>1. RunSame
  BY DEF RunSame, StartMb1, Enumerate, StartRecovery, PullCable, PlugIn, Reset, Touch
<1>2. greeter' \in Boards \cup {NoBoard}
  BY DEF TypeInv, StartMb1, Enumerate, StartRecovery, PullCable, PlugIn, Reset, Touch
<1>3. BoardsOK'
  <2>1. BoardsOK
    BY DEF TypeInv
  <2>2. bus' \in [Boards -> {"on", "off", "pulled"}]
    BY <2>1
    DEF BoardsOK, StartMb1, Enumerate, StartRecovery, PullCable, PlugIn, Reset
  <2>3. stage' \in [Boards -> Stages]
    BY <2>1
    DEF BoardsOK, Stages, StartMb1, Enumerate, StartRecovery, PullCable, PlugIn, Reset
  <2>4. got' \in [Boards -> 0..ArtifactCount]
    <3>1. 0 \in 0..ArtifactCount
      BY Counts
    <3> QED
      BY <2>1, <3>1
      DEF BoardsOK, StartMb1, Enumerate, StartRecovery, PullCable, PlugIn, Reset
  <2>5. touches' \in 0..Touches
    <3>1. touches' = touches \/ (touches < Touches /\ touches' = touches + 1)
      BY DEF StartMb1, Enumerate, StartRecovery, PullCable, PlugIn, Reset, Touch
    <3> QED
      BY <2>1, <3>1, Counts DEF BoardsOK
  <2> QED
    BY <2>2, <2>3, <2>4, <2>5 DEF BoardsOK
<1>4. HandleInv'
  <2> USE DEF TypeInv, BoardsOK, HandleInv
  <2>1. CASE StartMb1(b)
    BY <1>1, <2>1, HandleKept DEF StartMb1, Loses
  <2>2. CASE Enumerate(b)
    BY <1>1, <2>2, HandleKept DEF Enumerate
  <2>3. CASE StartRecovery(b)
    BY <1>1, <2>3, HandleKept DEF StartRecovery, Loses
  <2>4. CASE PullCable(b)
    BY <1>1, <2>4, HandleKept DEF PullCable, Touch, Loses
  <2>5. CASE PlugIn(b)
    BY <1>1, <2>5, HandleKept DEF PlugIn
  <2>6. CASE Reset(b)
    BY <1>1, <2>6, HandleKept DEF Reset, Touch, Loses
  <2> QED
    BY <2>1, <2>2, <2>3, <2>4, <2>5, <2>6
<1> QED
  BY <1>1, <1>2, <1>3, <1>4, RunKept DEF TypeInv

\* Closing the session drops the handle.
LEMMA CloseType ==
    ASSUME TypeInv, NEW next \in Finding \cup Ended, Close(next),
           sent' \in 0..ArtifactCount, runs' = runs
    PROVE  RunOK' /\ HandleInv'
  BY Counts
  DEF Close, TypeInv, RunOK, HandleInv, Places, Finding, Using, Ended

\* Sending an artifact keeps the invariant.
LEMMA TypeSend == TypeInv /\ Send => TypeInv'
<1> SUFFICES ASSUME TypeInv, Send PROVE TypeInv'
  OBVIOUS
<1>1. session \in Boards
  BY DEF TypeInv, RunOK, Send, Using
<1>2. sent + 1 \in 1..ArtifactCount
  BY Counts DEF TypeInv, RunOK, SentInv, Send
<1>3. BoardsOK' /\ bus' = bus
  BY <1>1, <1>2, TakeType DEF TypeInv, Send
<1>4. sent' = sent + 1 /\ sent' \in 0..ArtifactCount /\ runs' = runs /\ greeter' = greeter
  BY <1>2 DEF Send
<1>5. CASE sent + 1 = LastOf(at)
  <2>1. CASE at = "send1"
    <3>1. Close("find2") /\ sent' = BootromCount
      BY <1>4, <1>5, <2>1 DEF Send, LastOf
    <3>2. RunOK' /\ HandleInv'
      BY <1>4, <3>1, CloseType DEF Finding
    <3>3. SentInv'
      BY <3>1 DEF SentInv, Close
    <3> QED
      BY <1>3, <1>4, <3>2, <3>3 DEF TypeInv
  <2>2. CASE at = "send2"
    <3>1. Close("done")
      BY <1>5, <2>2 DEF Send
    <3>2. RunOK' /\ HandleInv'
      BY <1>4, <3>1, CloseType DEF Ended
    <3>3. SentInv'
      BY <3>1 DEF SentInv, Close
    <3> QED
      BY <1>3, <1>4, <3>2, <3>3 DEF TypeInv
  <2> QED
    BY <2>1, <2>2 DEF Send
<1>6. CASE sent + 1 # LastOf(at)
  <2>1. UNCHANGED <<at, session, live, late>>
    BY <1>6 DEF Send
  <2>2. RunOK' /\ HandleInv'
    BY <1>3, <1>4, <2>1 DEF TypeInv, RunOK, HandleInv
  <2>3. SentInv'
    BY <1>2, <1>4, <1>6, <2>1, Counts DEF TypeInv, RunOK, SentInv, LastOf, Send
  <2> QED
    BY <1>3, <1>4, <2>2, <2>3 DEF TypeInv
<1> QED
  BY <1>5, <1>6

\* So does every step of the loader.
LEMMA TypeLoader == TypeInv /\ LoaderStep => TypeInv'
<1> SUFFICES ASSUME TypeInv, LoaderStep PROVE TypeInv'
  OBVIOUS
<1> USE DEF boardVars
<1>1. ASSUME NEW b \in Boards, Open(b) PROVE TypeInv'
  <2>1. at' \in {"uid", "banner", "send2"}
    BY <1>1 DEF Open, Purpose, Finding
  <2>2. SentInv'
    BY <1>1, Counts DEF Open, Purpose, Finding, TypeInv, SentInv
  <2>3. RunOK'
    BY <1>1, <2>1, Counts DEF Open, TypeInv, RunOK, Places, Using
  <2>4. HandleInv'
    BY <1>1 DEF Open, OnlyMatch, OnBus, HandleInv
  <2> QED
    BY <1>1, <2>2, <2>3, <2>4 DEF Open, TypeInv, BoardsOK
<1>2. CASE Ambiguous \/ GiveUp
  <2>1. RunOK' /\ HandleInv' /\ SentInv'
    BY <1>2 DEF Ambiguous, GiveUp, TypeInv, RunOK, HandleInv, SentInv, Places, Finding,
                Using, Ended
  <2> QED
    BY <1>2, <2>1 DEF Ambiguous, GiveUp, TypeInv, BoardsOK
<1>3. CASE ReadUid
  <2>1. RunOK' /\ HandleInv'
    BY <1>3 DEF ReadUid, TypeInv, RunOK, HandleInv, Places, Using
  <2>2. SentInv'
    BY <1>3, Counts DEF ReadUid, TypeInv, SentInv
  <2> QED
    BY <1>3, <2>1, <2>2 DEF ReadUid, TypeInv, BoardsOK
<1>4. CASE ReadBanner
  <2>1. RunOK' /\ HandleInv'
    BY <1>4, CloseType DEF ReadBanner, Finding, TypeInv, RunOK
  <2>2. SentInv'
    BY <1>4 DEF ReadBanner, Close, TypeInv, SentInv
  <2>3. session \in Boards
    BY <1>4 DEF ReadBanner, TypeInv, HandleInv
  <2> QED
    BY <1>4, <2>1, <2>2, <2>3 DEF ReadBanner, TypeInv, BoardsOK
<1>5. CASE Send
  BY <1>5, TypeSend
<1>6. CASE TransferFails
  <2>1. RunOK' /\ HandleInv'
    BY <1>6, CloseType DEF TransferFails, Ended, TypeInv, RunOK
  <2>2. SentInv'
    BY <1>6 DEF TransferFails, Close, SentInv
  <2>3. BoardsOK'
    <3>1. CASE UNCHANGED boardVars
      BY <3>1 DEF TypeInv, BoardsOK
    <3>2. CASE at \in {"send1", "send2"} /\ live /\ Take(session, sent + 1)
      <4>1. session \in Boards
        BY <3>2 DEF TypeInv, HandleInv
      <4>2. sent + 1 \in 1..ArtifactCount
        BY <3>2, Counts DEF TypeInv, RunOK, SentInv
      <4> QED
        BY <3>2, <4>1, <4>2, TakeType DEF TypeInv
    <3> QED
      BY <1>6, <3>1, <3>2 DEF TransferFails
  <2> QED
    BY <1>6, <2>1, <2>2, <2>3 DEF TransferFails, TypeInv
<1> QED
  BY <1>1, <1>2, <1>3, <1>4, <1>5, <1>6 DEF LoaderStep

\* So does every step.
LEMMA TypeStep == TypeInv /\ [LoaderNext]_loaderVars => TypeInv'
<1> SUFFICES ASSUME TypeInv, [LoaderNext]_loaderVars PROVE TypeInv'
  OBVIOUS
<1>1. CASE LoaderStep
  BY <1>1, TypeLoader
<1>2. CASE DeadlinePasses \/ UNCHANGED loaderVars
  <2>1. /\ UNCHANGED <<boardVars, at, session, live, sent, greeter, runs>>
        /\ late' = late \/ late' = TRUE
    BY <1>2 DEF DeadlinePasses, loaderVars, boardVars
  <2>2. RunOK'
    BY <2>1 DEF TypeInv, RunOK
  <2> QED
    BY <2>1, <2>2 DEF boardVars, TypeInv, BoardsOK, HandleInv, SentInv
<1>3. CASE StartBoot
  <2>1. runs' \in 0..Runs
    BY <1>3, Counts DEF StartBoot, TypeInv, RunOK
  <2>2. RunOK' /\ HandleInv'
    BY <1>3, <2>1, Counts
    DEF StartBoot, boardVars, TypeInv, RunOK, HandleInv, Places, Finding, Using, Ended
  <2>3. SentInv'
    BY <1>3 DEF StartBoot, SentInv
  <2> QED
    BY <1>3, <2>2, <2>3 DEF StartBoot, boardVars, TypeInv, BoardsOK
<1>4. CASE Interrupt
  <2>1. RunOK' /\ HandleInv'
    BY <1>4, CloseType DEF Interrupt, Ended, TypeInv, RunOK
  <2>2. SentInv'
    BY <1>4 DEF Interrupt, Close, SentInv
  <2> QED
    BY <1>4, <2>1, <2>2 DEF Interrupt, boardVars, TypeInv, BoardsOK
<1> QED
  BY <1>1, <1>2, <1>3, <1>4, TypeAround DEF LoaderNext, Surroundings

\* Every variable of the loader and its boards keeps its type: a handle is held
\* exactly while it is used, and no artifact is sent past its set.
THEOREM LoaderTypeCorrect == LoaderSpec => []LoaderTypeOK
<1>1. LoaderSpec => []TypeInv
  BY TypeStart, TypeStep, PTL DEF LoaderSpec
<1> QED
  BY <1>1, TypeInvType, PTL

-----------------------------------------------------------------------------
(* The board that sent its banner *)

\* It stays in MB1 and on the bus until it has taken what is to be sent.
Waits(b) == stage[b] = "mb1" /\ bus[b] = "on" /\ got[b] = sent

GreeterInv ==
    greeter # NoBoard =>
        /\ at \in {"find3", "send2", "done", "failed"}
        /\ at = "find3" => Waits(greeter)
        /\ at = "send2" => Waits(greeter) /\ session = greeter
        /\ at = "done" => /\ got[greeter] = ArtifactCount
                          /\ stage[greeter] \in {"mb1", "recovery"}

\* No board has sent its banner at the start.
LEMMA GreeterStart == LoaderInit => GreeterInv
  BY DEF LoaderInit, GreeterInv

\* What happens to other boards, and to a board that does not wait.
LEMMA GreeterKept ==
    ASSUME TypeInv, GreeterInv, UNCHANGED <<at, session, sent>>,
           greeter' \in {greeter, NoBoard},
           greeter' # NoBoard =>
             \/ UNCHANGED <<stage[greeter], got[greeter], bus[greeter]>>
             \/ /\ at \notin {"find3", "send2"}
                /\ at = "done" => /\ got'[greeter] = got[greeter]
                                  /\ stage'[greeter] \in {"mb1", "recovery"}
    PROVE  GreeterInv'
  BY DEF GreeterInv, Waits

\* What happens around the loader keeps the invariant of the greeter.
LEMMA GreeterAround ==
    ASSUME TypeInv, GreeterInv, NEW b \in Boards,
           StartMb1(b) \/ Enumerate(b) \/ StartRecovery(b)
             \/ PullCable(b) \/ PlugIn(b) \/ Reset(b)
    PROVE  GreeterInv'
<1> USE DEF TypeInv, BoardsOK
<1>1. CASE StartMb1(b)
  <2>1. greeter = b => at = "failed" \/ greeter = NoBoard
    BY <1>1 DEF StartMb1, GreeterInv, Waits
  <2> QED
    BY <1>1, <2>1, GreeterKept DEF StartMb1
<1>2. CASE Enumerate(b)
  <2>1. greeter = b => at \in {"done", "failed"} \/ greeter = NoBoard
    BY <1>2 DEF Enumerate, GreeterInv, Waits
  <2>2. greeter = b /\ at = "done" => stage[b] = "mb1" \/ greeter = NoBoard
    BY <1>2 DEF Enumerate
  <2> QED
    BY <1>2, <2>1, <2>2, GreeterKept DEF Enumerate
<1>3. CASE StartRecovery(b)
  <2>1. greeter = b => at \in {"done", "failed"} \/ greeter = NoBoard
    BY <1>3, Counts DEF StartRecovery, GreeterInv, Waits, RunOK, SentInv
  <2> QED
    BY <1>3, <2>1, GreeterKept DEF StartRecovery
<1>4. CASE PullCable(b)
  BY <1>4, GreeterKept DEF PullCable, Touch
<1>5. CASE PlugIn(b)
  <2>1. greeter = b => at \in {"done", "failed"} \/ greeter = NoBoard
    BY <1>5 DEF PlugIn, GreeterInv, Waits
  <2> QED
    BY <1>5, <2>1, GreeterKept DEF PlugIn, GreeterInv
<1>6. CASE Reset(b)
  BY <1>6, GreeterKept DEF Reset, Touch
<1> QED
  BY <1>1, <1>2, <1>3, <1>4, <1>5, <1>6

\* The only board on the bus is the one that waits there.
LEMMA GreeterOpen ==
    ASSUME TypeInv, GreeterInv, NEW b \in Boards, Open(b) PROVE GreeterInv'
<1> SUFFICES ASSUME greeter # NoBoard PROVE GreeterInv'
  BY DEF Open, GreeterInv
<1>1. at = "find3" /\ at' = "send2"
  BY DEF Open, GreeterInv, Finding, Purpose
<1>2. Waits(greeter) /\ greeter \in Boards
  BY <1>1 DEF GreeterInv, TypeInv
<1>3. b = greeter
  BY <1>2 DEF Open, OnlyMatch, OnBus, Waits
<1> QED
  BY <1>1, <1>2, <1>3 DEF Open, GreeterInv, Waits, boardVars

\* The board takes what is sent, since it has taken all before.
LEMMA GreeterSend == TypeInv /\ GreeterInv /\ Send => GreeterInv'
<1> SUFFICES ASSUME TypeInv, GreeterInv, Send, greeter # NoBoard PROVE GreeterInv'
  BY DEF Send, GreeterInv
<1>1. at = "send2" /\ Waits(greeter) /\ session = greeter /\ greeter \in Boards
  BY DEF Send, GreeterInv, TypeInv
<1>2. sent \in Nat /\ sent >= BootromCount
  BY <1>1, Counts DEF TypeInv, RunOK, SentInv
<1>3. got'[greeter] = sent + 1 /\ stage'[greeter] = "mb1" /\ bus' = bus
  BY <1>1, <1>2, Counts DEF Send, Take, Waits, TypeInv, BoardsOK
<1>4. CASE sent + 1 = ArtifactCount
  BY <1>1, <1>3, <1>4 DEF Send, Close, LastOf, GreeterInv
<1>5. CASE sent + 1 # ArtifactCount
  BY <1>1, <1>3, <1>5 DEF Send, LastOf, GreeterInv, Waits
<1> QED
  BY <1>4, <1>5

\* So does every step.
LEMMA GreeterStep ==
    TypeInv /\ GreeterInv /\ [LoaderNext]_loaderVars => GreeterInv'
<1> SUFFICES ASSUME TypeInv, GreeterInv, [LoaderNext]_loaderVars PROVE GreeterInv'
  OBVIOUS
<1> USE DEF boardVars
<1>1. CASE Ambiguous \/ GiveUp
  BY <1>1 DEF Ambiguous, GiveUp, GreeterInv
<1>2. CASE ReadUid
  BY <1>2 DEF ReadUid, GreeterInv
<1>3. CASE ReadBanner
  <2>1. bus[session] = "on" /\ got[session] = sent
    BY <1>3 DEF ReadBanner, TypeInv, HandleInv, SentInv
  <2> QED
    BY <1>3, <2>1 DEF ReadBanner, Close, GreeterInv, Waits
<1>4. CASE TransferFails \/ Interrupt
  BY <1>4 DEF TransferFails, Interrupt, Close, GreeterInv, Using, Ended
<1>5. CASE StartBoot
  BY <1>5 DEF StartBoot, GreeterInv
<1>6. CASE DeadlinePasses \/ UNCHANGED loaderVars
  BY <1>6, GreeterKept DEF DeadlinePasses, loaderVars
<1> QED
  BY <1>1, <1>2, <1>3, <1>4, <1>5, <1>6, GreeterOpen, GreeterSend, GreeterAround
  DEF LoaderNext, LoaderStep, Surroundings

\* Both invariants hold throughout.
LEMMA LoaderInvariant == LoaderSpec => [](TypeInv /\ GreeterInv)
  BY TypeStart, TypeStep, GreeterStart, GreeterStep, PTL DEF LoaderSpec

\* The second stage goes to the board that sent its banner, although each open
\* takes whatever is alone on the bus.
THEOREM GreeterSafety == LoaderSpec => []StageTwoToGreeter
<1>1. GreeterInv => StageTwoToGreeter
  BY DEF GreeterInv, Waits, StageTwoToGreeter
<1> QED
  BY <1>1, LoaderInvariant, PTL

\* The loader reports success only when that board took every artifact.
THEOREM LoadedSafety == LoaderSpec => []SentMeansLoaded
<1>1. GreeterInv => SentMeansLoaded
  BY DEF GreeterInv, SentMeansLoaded
<1> QED
  BY <1>1, LoaderInvariant, PTL

-----------------------------------------------------------------------------
(* Both programs *)

\* A behaviour of the two programs of helm-macos is one of the console, and one
\* of the loader: what is proved of each holds wherever they are run.
THEOREM BothPrograms == MacUsbSpec => Spec /\ LoaderSpec
<1>1. MacUsbInit => Init /\ LoaderInit
  BY DEF MacUsbInit, NoConsole, NoLoader
<1>2. [MacUsbNext]_macUsbVars => [Next]_vars /\ [LoaderNext]_loaderVars
  BY DEF MacUsbNext, macUsbVars
<1> QED
  BY <1>1, <1>2, PTL DEF MacUsbSpec, Spec, LoaderSpec
=============================================================================
