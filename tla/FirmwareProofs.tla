--------------------------- MODULE FirmwareProofs ---------------------------
(***************************************************************************)
(* What holds of the tools that make a board's software, for any images,   *)
(* modules, runs, catalogs and geometry of the storage: the parts of what  *)
(* a parser accepts or a builder makes lie where PartsInPlace says, a      *)
(* rewritten MB2 is what signing would have made, published inputs are     *)
(* whole, and a QSPI image with a checksum is what its catalog describes.  *)
(***************************************************************************)
EXTENDS FamilyInputs, Images, Qspi, FiniteSetTheorems, WellFoundedInduction, TLAPS

-----------------------------------------------------------------------------
(* Numbers *)

\* A set of natural numbers has a least element.
LEMMA Least ==
    ASSUME NEW S \in SUBSET Nat, S # {}
    PROVE  \E x \in S : \A y \in S : x <= y
<1>1. PICK x \in S : \A y \in S : ~(<<y, x>> \in OpToRel(<, Nat))
  BY NatLessThanWellFounded, WFMin
<1>2. ASSUME NEW y \in S PROVE x <= y
  <2>1. x \in Nat /\ y \in Nat
    OBVIOUS
  <2>2. ~(y < x)
    BY <1>1, <2>1 DEF OpToRel
  <2> QED
    BY <2>1, <2>2
<1> QED
  BY <1>2

\* A bounded set of natural numbers has a greatest element, which Max is.
LEMMA Greatest ==
    ASSUME NEW S \in SUBSET Nat, S # {}, NEW bound \in Nat, \A y \in S : y <= bound
    PROVE  Max(S) \in S /\ \A y \in S : Max(S) >= y
<1> DEFINE D == {n \in Nat : bound - n \in S}
<1>1. D \in SUBSET Nat /\ D # {}
  <2>1. PICK y \in S : TRUE
    OBVIOUS
  <2>2. bound - y \in Nat /\ bound - (bound - y) = y
    BY <2>1
  <2> QED
    BY <2>1, <2>2
<1>2. PICK x \in D : \A y \in D : x <= y
  BY <1>1, Least
<1>3. x \in Nat /\ bound - x \in S
  BY <1>2
<1>4. ASSUME NEW y \in S PROVE bound - x >= y
  <2>1. y \in Nat /\ y <= bound
    OBVIOUS
  <2>2. bound - y \in D
    BY <2>1
  <2>3. x <= bound - y
    BY <1>2, <2>2
  <2> QED
    BY <1>3, <2>1, <2>3
<1> QED
  BY <1>3, <1>4 DEF Max

\* Quotient and remainder.
LEMMA Divided ==
    ASSUME NEW d \in Nat, d > 0, NEW a \in Nat
    PROVE  a \div d \in Nat /\ a % d \in 0..(d - 1) /\ a = (a \div d) * d + (a % d)
<1> DEFINE p == a \div d
           u == a % d
<1>1. p \in Nat /\ u \in 0..(d - 1) /\ a = p * d + u
  OBVIOUS
<1> HIDE DEF p, u
<1> QED
  BY <1>1 DEF p, u

\* Division is unique.
LEMMA Division ==
    ASSUME NEW d \in Nat, d > 0, NEW q \in Nat, NEW t \in 0..(d - 1)
    PROVE  (q * d + t) % d = t
<1> DEFINE a == q * d + t
           p == a \div d
           u == a % d
<1>1. q * d \in Nat /\ a \in Nat
  OBVIOUS
<1> HIDE DEF a
<1>2. p \in Nat /\ u \in 0..(d - 1) /\ a = p * d + u
  BY <1>1
<1> HIDE DEF p, u
<1>3. p * d + u = q * d + t
  BY <1>2 DEF a
<1>4. ASSUME p > q PROVE FALSE
  <2>1. p * d >= (q + 1) * d
    BY <1>2, <1>4
  <2>2. (q + 1) * d = q * d + d
    BY <1>1
  <2>3. p * d \in Nat
    BY <1>2
  <2> QED
    BY <1>1, <1>2, <1>3, <2>1, <2>2, <2>3
<1>5. ASSUME p < q PROVE FALSE
  <2>1. q * d >= (p + 1) * d
    BY <1>2, <1>5
  <2>2. (p + 1) * d = p * d + d
    BY <1>2
  <2>3. p * d \in Nat
    BY <1>2
  <2> QED
    BY <1>1, <1>2, <1>3, <2>1, <2>2, <2>3
<1>6. p = q
  BY <1>2, <1>4, <1>5
<1>7. u = t
  BY <1>1, <1>2, <1>3, <1>6
<1> QED
  BY <1>7 DEF u, a

\* A unit is in a block that begins at a multiple of its size.
LEMMA InItsBlock ==
    ASSUME NEW d \in Nat, d > 0, NEW c \in Nat
    PROVE  /\ c % d \in 0..(d - 1)
           /\ c - (c % d) \in Nat
           /\ (c - (c % d)) % d = 0
<1> DEFINE q == c \div d
           t == c % d
<1>1. q \in Nat /\ t \in 0..(d - 1) /\ c = q * d + t
  OBVIOUS
<1> HIDE DEF q, t
<1>2. q * d \in Nat
  BY <1>1
<1>3. (q * d + 0) % d = 0
  BY <1>1, Division
<1>4. c - t = q * d + 0
  BY <1>1, <1>2
<1>5. (c - t) % d = 0
  BY <1>3, <1>4
<1>6. c - t \in Nat /\ t \in 0..(d - 1)
  BY <1>1, <1>2, <1>4
<1> QED
  BY <1>5, <1>6 DEF t

\* The offset within a block, from the offset of the block.
LEMMA FromBlock ==
    ASSUME NEW d \in Nat, d > 0, NEW o \in Nat, o % d = 0, NEW k \in 0..(d - 1)
    PROVE  (o + k) % d = k
<1> DEFINE q == o \div d
           t == o % d
<1>1. q \in Nat /\ t = 0 /\ o = q * d + t
  BY Divided
<1> HIDE DEF q, t
<1>2. q * d \in Nat /\ o = q * d
  BY <1>1
<1>3. (q * d + k) % d = k
  BY <1>1, Division
<1>4. q * d + k = o + k
  BY <1>2
<1> QED
  BY <1>3, <1>4

\* A block that begins before a multiple of the size ends before it too.
LEMMA BlockFits ==
    ASSUME NEW d \in Nat, d > 0, NEW o \in Nat, NEW s \in Nat,
           o % d = 0, s % d = 0, o < s
    PROVE  o + d <= s
<1> DEFINE q == o \div d
           p == s \div d
<1>1. /\ q \in Nat /\ o = q * d + (o % d)
      /\ p \in Nat /\ s = p * d + (s % d)
  BY Divided
<1> HIDE DEF q, p
<1>2. q * d \in Nat /\ o = q * d /\ p * d \in Nat /\ s = p * d
  BY <1>1
<1>3. p > q
  <2> SUFFICES ASSUME p <= q PROVE FALSE
    BY <1>1
  <2>1. p * d <= q * d
    BY <1>1
  <2> QED
    BY <1>2, <2>1
<1>4. p * d >= (q + 1) * d
  BY <1>1, <1>3
<1>5. (q + 1) * d = q * d + d
  BY <1>1
<1> QED
  BY <1>2, <1>4, <1>5

-----------------------------------------------------------------------------
(* Boot components *)

Boxed(payload, stage1, stage2, inner, outer) ==
    [kind |-> "component", payload |-> payload, stage1 |-> stage1, stage2 |-> stage2,
     inner |-> inner, outer |-> outer]

Described(magic, size, sha) == [magic |-> magic, size |-> size, sha |-> sha]

\* One field of a component changed.
LEMMA Edits ==
    ASSUME NEW p, NEW s, NEW t, NEW i, NEW o, NEW v
    PROVE  LET c == Boxed(p, s, t, i, o)
           IN  /\ [c EXCEPT !.payload = v] = Boxed(v, s, t, i, o)
               /\ [c EXCEPT !.inner = v] = Boxed(p, s, t, v, o)
               /\ [c EXCEPT !.outer = v] = Boxed(p, s, t, i, v)
               /\ c.payload = p /\ c.stage1 = s /\ c.stage2 = t
               /\ c.inner = i /\ c.outer = o
<1>1. [Boxed(p, s, t, i, o) EXCEPT !.payload = v] = Boxed(v, s, t, i, o)
  BY DEF Boxed
<1>2. [Boxed(p, s, t, i, o) EXCEPT !.inner = v] = Boxed(p, s, t, v, o)
  BY DEF Boxed
<1>3. [Boxed(p, s, t, i, o) EXCEPT !.outer = v] = Boxed(p, s, t, i, v)
  BY DEF Boxed
<1>4. LET c == Boxed(p, s, t, i, o)
      IN  c.payload = p /\ c.stage1 = s /\ c.stage2 = t /\ c.inner = i /\ c.outer = o
  BY DEF Boxed
<1> QED
  BY <1>1, <1>2, <1>3, <1>4

\* Refreshing both digests of a component.
LEMMA Refreshed ==
    ASSUME NEW p, NEW s, NEW t, NEW i, NEW o
    PROVE  Refresh(Boxed(p, s, t, i, o))
             = Boxed(p, s, t, Digest(<<s, t>>), Digest(<<Digest(<<s, t>>), s, t>>))
<1> DEFINE c == Boxed(p, s, t, i, o)
           d == Boxed(p, s, t, Digest(<<s, t>>), o)
<1>1. c.stage1 = s /\ c.stage2 = t /\ d.stage1 = s /\ d.stage2 = t
      /\ d.inner = Digest(<<s, t>>)
  BY Edits
<1>2. SealInner(c) = d
  <2>1. InnerDigest(c) = Digest(<<s, t>>)
    BY <1>1 DEF InnerDigest
  <2> QED
    BY <2>1, Edits DEF SealInner
<1>3. SealOuter(d) = Boxed(p, s, t, Digest(<<s, t>>), Digest(<<Digest(<<s, t>>), s, t>>))
  <2>1. OuterDigest(d) = Digest(<<Digest(<<s, t>>), s, t>>)
    BY <1>1 DEF OuterDigest
  <2> QED
    BY <2>1, Edits DEF SealOuter
<1> QED
  BY <1>2, <1>3 DEF Refresh

\* What signing makes.
LEMMA ComponentFields ==
    ASSUME NEW magic, NEW payload
    PROVE  LET d == Described(magic, payload.length, Digest(payload))
           IN  Component(magic, payload)
                 = Boxed(payload, d, d, Digest(<<d, d>>),
                         Digest(<<Digest(<<d, d>>), d, d>>))
<1> DEFINE d == Descriptor(magic, payload)
<1>1. d = Described(magic, payload.length, Digest(payload))
  BY DEF Descriptor, Described
<1>2. Component(magic, payload) = Refresh(Boxed(payload, d, d, Digest(<<>>), Digest(<<>>)))
  BY DEF Component, Refresh, Boxed
<1> HIDE DEF d
<1>3. Component(magic, payload)
        = Boxed(payload, d, d, Digest(<<d, d>>), Digest(<<Digest(<<d, d>>), d, d>>))
  BY <1>2, Refreshed
<1> QED
  BY <1>1, <1>3

\* What signing makes passes the validation of one payload.
LEMMA ComponentGenuine ==
    ASSUME NEW magic, NEW payload
    PROVE  /\ SinglePayload(Component(magic, payload), magic)
           /\ Component(magic, payload).payload = payload
<1> DEFINE c == Component(magic, payload)
           d == Described(magic, payload.length, Digest(payload))
<1>1. c = Boxed(payload, d, d, Digest(<<d, d>>), Digest(<<Digest(<<d, d>>), d, d>>))
  BY ComponentFields
<1> HIDE DEF c
<1>2. /\ c.payload = payload /\ c.stage1 = d /\ c.stage2 = d
      /\ c.inner = Digest(<<d, d>>) /\ c.outer = Digest(<<Digest(<<d, d>>), d, d>>)
  BY <1>1, Edits
<1>3. ValidHashes(c)
  BY <1>2 DEF ValidHashes, InnerDigest, OuterDigest
<1>4. Descriptor(magic, payload) = d
  BY DEF Descriptor, Described
<1>5. SinglePayload(c, magic)
  BY <1>2, <1>3, <1>4 DEF SinglePayload
<1> QED
  BY <1>2, <1>5 DEF c

\* Rebuilding a component around a payload of the same length is what signing
\* makes of that payload.
LEMMA RebuiltIsSigned ==
    ASSUME NEW magic, NEW payload, NEW other, other.length = payload.length
    PROVE  Rebuild(Component(magic, payload), magic, other) = Component(magic, other)
<1> DEFINE c == Component(magic, payload)
           d == Described(magic, payload.length, Digest(payload))
           i == Digest(<<d, d>>)
           o == Digest(<<Digest(<<d, d>>), d, d>>)
           n == other.length
           a == Digest(payload)
           b == Digest(other)
           x == [c EXCEPT !.payload = other]
           y == [x EXCEPT !.stage1.size = n]
           z == [y EXCEPT !.stage1.sha = b]
           u == [z EXCEPT !.stage2.size = n]
           edited == [u EXCEPT !.stage2.sha = b]
<1>1. c = Boxed(payload, d, d, i, o)
  BY ComponentFields
<1>2. edited = [c EXCEPT !.payload = other,
                         !.stage1.size = other.length,
                         !.stage1.sha  = Digest(other),
                         !.stage2.size = other.length,
                         !.stage2.sha  = Digest(other)]
  BY Zenon
<1> HIDE DEF c, i, o
<1>3. x = Boxed(other, d, d, i, o)
  BY <1>1, Edits
<1>4. d = Described(magic, n, a)
  OBVIOUS
<1> HIDE DEF n, a, b, d, x, y, z, u, edited
<1>5. y = Boxed(other, Described(magic, n, a), d, i, o)
  BY <1>3, <1>4 DEF y, Boxed, Described
<1>6. z = Boxed(other, Described(magic, n, b), d, i, o)
  BY <1>5 DEF z, Boxed, Described
<1>7. u = Boxed(other, Described(magic, n, b), Described(magic, n, a), i, o)
  BY <1>4, <1>6 DEF u, Boxed, Described
<1>8. edited = Boxed(other, Described(magic, n, b), Described(magic, n, b), i, o)
  BY <1>7 DEF edited, Boxed, Described
<1>9. Refresh(edited) = Component(magic, other)
  BY <1>8, ComponentFields, Refreshed DEF n, b
<1>10. /\ SinglePayload(c, magic) /\ other.length = c.payload.length
       /\ SinglePayload(Component(magic, other), magic)
  BY ComponentGenuine DEF c
<1> QED
  BY <1>2, <1>9, <1>10, Zenon DEF Rebuild, c

\* A genuine MB2 with the EEPROM size `cvb`.
Mb2(raw) ==
    raw.markers = 1 /\ raw.cvm = 256 /\ raw.cvb \in {0, 256} /\ raw.addresses = "A0AE"

\* A genuine MB2 is rewritten to what signing makes of the rewritten payload.
LEMMA EepromDisabled ==
    ASSUME NEW raw, Mb2(raw), raw.cvb = 0 => [raw EXCEPT !.cvb = 0] = raw,
           [raw EXCEPT !.cvb = 0].length = raw.length
    PROVE  DisableAbsentCvbEeprom(Component("MB2B", raw))
             = Component("MB2B", [raw EXCEPT !.cvb = 0])
<1> DEFINE c == Component("MB2B", raw)
<1>1. SinglePayload(c, "MB2B") /\ c.payload = raw
  BY ComponentGenuine
<1>2. Rebuild(c, "MB2B", [raw EXCEPT !.cvb = 0]) = Component("MB2B", [raw EXCEPT !.cvb = 0])
  BY RebuiltIsSigned
<1> HIDE DEF c
<1>3. DisableAbsentCvbEeprom(c)
        = IF raw.cvb = 0 THEN c ELSE Rebuild(c, "MB2B", [raw EXCEPT !.cvb = 0])
  BY <1>1 DEF DisableAbsentCvbEeprom, Mb2
<1>4. CASE raw.cvb = 0
  BY <1>3, <1>4 DEF c
<1>5. CASE raw.cvb # 0
  BY <1>2, <1>3, <1>5 DEF c
<1> QED
  BY <1>4, <1>5 DEF c

-----------------------------------------------------------------------------
(* Images: the rewritten MB2 *)

\* A component that passes the validation of one payload is what signing makes
\* of that payload.
LEMMA OnlySigned ==
    ASSUME NEW magic, NEW p, NEW s, NEW t, NEW i, NEW o,
           SinglePayload(Boxed(p, s, t, i, o), magic)
    PROVE  /\ Boxed(p, s, t, i, o) = Component(magic, p)
           /\ t.size = p.length
<1> DEFINE c == Boxed(p, s, t, i, o)
           d == Described(magic, p.length, Digest(p))
<1>1. c.payload = p /\ c.stage1 = s /\ c.stage2 = t /\ c.inner = i /\ c.outer = o
  BY Edits
<1>2. Descriptor(magic, p) = d
  BY DEF Descriptor, Described
<1>3. s = d /\ t = d
  BY <1>1, <1>2 DEF SinglePayload
<1>4. i = Digest(<<d, d>>) /\ o = Digest(<<Digest(<<d, d>>), d, d>>)
  BY <1>1, <1>3 DEF SinglePayload, ValidHashes, InnerDigest, OuterDigest
<1>5. Boxed(p, s, t, i, o) = Component(magic, p)
  BY <1>3, <1>4, ComponentFields
<1>6. d.size = p.length
  BY DEF Described
<1> QED
  BY <1>3, <1>5, <1>6

\* An image of the component kind: a payload as a module's MB2 has it, or one
\* that is longer than its descriptors say.
Mb2Image(c) ==
    \E p, s, t, i, o :
      /\ c = Boxed(p, s, t, i, o)
      /\ p \in RawMb2 \/ t.size # p.length

\* Every component the tool is given is one of those.
LEMMA Mb2Images == \A c \in Mb2Components : Mb2Image(c)
<1> SUFFICES ASSUME NEW raw \in RawMb2
             PROVE  LET c == Component("MB2B", raw)
                    IN  /\ Mb2Image(c)
                        /\ Mb2Image([c EXCEPT !.payload.length = 5])
                        /\ Mb2Image([c EXCEPT !.stage1.size = 5])
                        /\ Mb2Image([c EXCEPT !.stage2.magic = "MEM0"])
                        /\ Mb2Image([c EXCEPT !.stage1.sha
                                                 = Digest([Good EXCEPT !.length = 5])])
                        /\ Mb2Image(SealOuter([c EXCEPT !.inner = Digest(<<c.stage1>>)]))
                        /\ Mb2Image(SealOuter(SealInner([c EXCEPT !.stage2.size = 5])))
  BY Zenon DEF Mb2Components
<1> DEFINE d == Described("MB2B", raw.length, Digest(raw))
           i == Digest(<<d, d>>)
           o == Digest(<<Digest(<<d, d>>), d, d>>)
           c == Component("MB2B", raw)
<1>1. c = Boxed(raw, d, d, i, o)
  BY ComponentFields
<1>2. d.size = 4
  BY DEF Described, RawMb2
<1> HIDE DEF c, d, i, o
<1>3. Mb2Image(c)
  BY <1>1 DEF Mb2Image
<1>4. Mb2Image([c EXCEPT !.payload.length = 5])
  <2> DEFINE long == [raw EXCEPT !.length = 5]
  <2>1. long.length = 5
    BY DEF RawMb2
  <2> HIDE DEF long
  <2>2. [c EXCEPT !.payload.length = 5] = Boxed(long, d, d, i, o)
    BY <1>1 DEF Boxed, long
  <2> QED
    BY <1>2, <2>1, <2>2 DEF Mb2Image
<1>5. Mb2Image([c EXCEPT !.stage1.size = 5])
  <2>1. [c EXCEPT !.stage1.size = 5] = Boxed(raw, [d EXCEPT !.size = 5], d, i, o)
    BY <1>1 DEF Boxed
  <2> QED
    BY <2>1 DEF Mb2Image
<1>6. Mb2Image([c EXCEPT !.stage2.magic = "MEM0"])
  <2>1. [c EXCEPT !.stage2.magic = "MEM0"]
          = Boxed(raw, d, [d EXCEPT !.magic = "MEM0"], i, o)
    BY <1>1 DEF Boxed
  <2> QED
    BY <2>1 DEF Mb2Image
<1>7. Mb2Image([c EXCEPT !.stage1.sha = Digest([Good EXCEPT !.length = 5])])
  <2> DEFINE other == Digest([Good EXCEPT !.length = 5])
  <2> HIDE DEF other
  <2>1. [c EXCEPT !.stage1.sha = other] = Boxed(raw, [d EXCEPT !.sha = other], d, i, o)
    BY <1>1 DEF Boxed
  <2>2. Mb2Image([c EXCEPT !.stage1.sha = other])
    BY <2>1 DEF Mb2Image
  <2> QED
    BY <2>2 DEF other
<1>8. Mb2Image(SealOuter([c EXCEPT !.inner = Digest(<<c.stage1>>)]))
  <2> DEFINE part == Digest(<<c.stage1>>)
             b == Boxed(raw, d, d, part, o)
  <2> HIDE DEF part
  <2>1. [c EXCEPT !.inner = part] = b
    BY <1>1, Edits
  <2>2. SealOuter(b) = Boxed(raw, d, d, part, OuterDigest(b))
    BY Edits DEF SealOuter
  <2>3. Mb2Image(SealOuter([c EXCEPT !.inner = part]))
    BY <2>1, <2>2, Zenon DEF Mb2Image
  <2> QED
    BY <2>3 DEF part
<1>9. Mb2Image(SealOuter(SealInner([c EXCEPT !.stage2.size = 5])))
  <2> DEFINE t == [d EXCEPT !.size = 5]
             b == Boxed(raw, d, t, i, o)
             e == Boxed(raw, d, t, InnerDigest(b), o)
  <2> HIDE DEF t
  <2>1. [c EXCEPT !.stage2.size = 5] = b
    BY <1>1 DEF Boxed, t
  <2>2. SealInner(b) = e
    BY Edits DEF SealInner
  <2>3. SealOuter(e) = Boxed(raw, d, t, InnerDigest(b), OuterDigest(e))
    BY Edits DEF SealOuter
  <2>4. SealOuter(SealInner([c EXCEPT !.stage2.size = 5]))
          = Boxed(raw, d, t, InnerDigest(b), OuterDigest(e))
    BY <2>1, <2>2, <2>3
  <2> QED
    BY <2>4, Zenon DEF Mb2Image
<1> QED
  BY <1>3, <1>4, <1>5, <1>6, <1>7, <1>8, <1>9 DEF c

\* What RebuildAccepted says of an image and what became of it.
Rebuilds(c, outcome) ==
    LET raw == c.payload
    IN  IF /\ SinglePayload(c, "MB2B")
           /\ raw \in RawMb2 /\ raw.cvb # 1 /\ raw = [Good EXCEPT !.cvb = raw.cvb]
        THEN /\ outcome = Component("MB2B", [raw EXCEPT !.cvb = 0])
             /\ DisableAbsentCvbEeprom(outcome) = outcome
        ELSE outcome = Failed

\* What becomes of them.
LEMMA RebuildOutcome ==
    ASSUME NEW c, Mb2Image(c)
    PROVE  Rebuilds(c, DisableAbsentCvbEeprom(c))
<1> DEFINE raw == c.payload
           off == [raw EXCEPT !.cvb = 0]
<1>1. CASE ~SinglePayload(c, "MB2B")
  BY <1>1 DEF Rebuilds, DisableAbsentCvbEeprom
<1>2. CASE SinglePayload(c, "MB2B")
  <2>1. PICK p, s, t, i, o : /\ c = Boxed(p, s, t, i, o)
                             /\ p \in RawMb2 \/ t.size # p.length
    BY DEF Mb2Image
  <2>2. raw = p
    BY <2>1, Edits
  <2>3. SinglePayload(Boxed(p, s, t, i, o), "MB2B")
    BY <1>2, <2>1
  <2>4. c = Component("MB2B", raw) /\ raw \in RawMb2
    BY <2>1, <2>2, <2>3, OnlySigned
  <2> DEFINE Genuine == raw.cvb # 1 /\ raw = [Good EXCEPT !.cvb = raw.cvb]
  <2> HIDE DEF raw
  <2>5. raw.cvb \in {0, 1, 256} /\ raw.length = 4
    BY <2>4 DEF RawMb2
  <2>6. Genuine <=> Mb2(raw)
    <3>1. raw = [markers |-> raw.markers, cvm |-> raw.cvm, cvb |-> raw.cvb,
                 addresses |-> raw.addresses, length |-> 4]
      BY <2>4 DEF RawMb2
    <3>2. [Good EXCEPT !.cvb = raw.cvb]
            = [markers |-> 1, cvm |-> 256, cvb |-> raw.cvb, addresses |-> "A0AE",
               length |-> 4]
      BY DEF Good
    <3> QED
      BY <2>5, <3>1, <3>2 DEF Mb2
  <2>7. CASE ~Genuine
    <3>1. DisableAbsentCvbEeprom(c) = Failed
      BY <1>2, <2>5, <2>6, <2>7 DEF DisableAbsentCvbEeprom, Mb2, raw
    <3> QED
      BY <2>7, <3>1 DEF Rebuilds, raw
  <2>8. CASE Genuine
    <3>1. /\ off.length = raw.length /\ off.cvb = 0 /\ Mb2(off)
          /\ raw.cvb = 0 => off = raw
          /\ [off EXCEPT !.cvb = 0] = off
      <4>1. raw = [markers |-> 1, cvm |-> 256, cvb |-> raw.cvb, addresses |-> "A0AE",
                   length |-> 4]
        BY <2>4, <2>6, <2>8 DEF RawMb2, Mb2
      <4>2. off = [markers |-> 1, cvm |-> 256, cvb |-> 0, addresses |-> "A0AE",
                   length |-> 4]
        BY <4>1
      <4> HIDE DEF off
      <4>3. /\ off.length = raw.length /\ off.cvb = 0
            /\ raw.cvb = 0 => off = raw
            /\ [off EXCEPT !.cvb = 0] = off
        BY <4>1, <4>2
      <4>4. Mb2(off)
        BY <4>2 DEF Mb2
      <4> QED
        BY <4>3, <4>4 DEF off
    <3>2. DisableAbsentCvbEeprom(c) = Component("MB2B", off)
      BY <2>4, <2>6, <2>8, <3>1, EepromDisabled
    <3> HIDE DEF off
    <3>3. DisableAbsentCvbEeprom(Component("MB2B", off)) = Component("MB2B", off)
      BY <3>1, EepromDisabled
    <3> QED
      BY <1>2, <2>4, <2>8, <3>2, <3>3 DEF Rebuilds, raw, off
  <2> QED
    BY <2>7, <2>8
<1> QED
  BY <1>1, <1>2

-----------------------------------------------------------------------------
(* Tilings *)

\* A cursor that starts at 0 or later and never goes back.
Advancing(cur, n) ==
    /\ n \in Nat
    /\ cur \in [0..n -> Nat]
    /\ \A i \in 1..n : cur[i - 1] <= cur[i]

\* Such a cursor never goes back, over any distance.
LEMMA NeverBack ==
    ASSUME NEW cur, NEW n, Advancing(cur, n), NEW j \in 0..n, NEW i \in 0..j
    PROVE  cur[i] <= cur[j]
<1> DEFINE D == {k \in 0..n : \E m \in 0..k : cur[m] > cur[k]}
<1>0. n \in Nat /\ \A k \in 0..n : cur[k] \in Nat
  BY DEF Advancing
<1>1. ASSUME D # {} PROVE FALSE
  <2>1. D \in SUBSET Nat
    OBVIOUS
  <2>2. PICK k \in D : \A l \in D : k <= l
    BY <1>1, <2>1, Least
  <2>3. PICK m \in 0..k : cur[m] > cur[k]
    BY <2>2
  <2>4. k \in 0..n /\ m \in 0..n /\ cur[m] \in Nat /\ cur[k] \in Nat
    BY <1>0, <2>2, <2>3
  <2>5. m # k
    BY <2>3, <2>4
  <2>6. k - 1 \in 0..n /\ m \in 0..(k - 1) /\ k \in 1..n
    BY <1>0, <2>3, <2>4, <2>5
  <2>7. k - 1 \notin D
    BY <2>2, <2>4
  <2>8. ~(cur[m] > cur[k - 1])
    BY <2>6, <2>7
  <2>9. cur[k - 1] <= cur[k] /\ cur[k - 1] \in Nat
    BY <1>0, <2>6 DEF Advancing
  <2> QED
    BY <2>3, <2>4, <2>8, <2>9
<1>2. j \notin D
  BY <1>1
<1>3. ~(cur[i] > cur[j])
  BY <1>2
<1>4. i \in 0..n /\ cur[i] \in Nat /\ cur[j] \in Nat
  BY <1>0
<1> QED
  BY <1>3, <1>4

\* The parts between the places of such a cursor tile what it went over.
LEMMA CursorTiles ==
    ASSUME NEW cur, NEW n, Advancing(cur, n), NEW first, NEW end, NEW parts,
           cur[0] = first, cur[n] = end, DOMAIN parts = 1..n,
           \A i \in 1..n : parts[i] = cur[i - 1]..(cur[i] - 1)
    PROVE  Tile(parts, first..(end - 1))
<1>0. n \in Nat /\ \A k \in 0..n : cur[k] \in Nat
  BY DEF Advancing
<1>1. ASSUME NEW u \in first..(end - 1) PROVE \E i \in 1..n : u \in parts[i]
  <2> DEFINE S == {k \in 0..n : cur[k] > u}
  <2>1. n \in S /\ S \in SUBSET Nat /\ u \in Int
    BY <1>0
  <2>2. PICK k \in S : \A l \in S : k <= l
    BY <2>1, Least
  <2>3. k # 0
    BY <1>0, <2>1, <2>2
  <2>4. k \in 1..n /\ k - 1 \in 0..n
    BY <1>0, <2>2, <2>3
  <2>5. k - 1 \notin S
    BY <2>2, <2>4
  <2>6. cur[k - 1] <= u /\ u <= cur[k] - 1
    BY <1>0, <2>1, <2>2, <2>4, <2>5
  <2>7. u \in parts[k]
    BY <1>0, <2>1, <2>4, <2>6
  <2> QED
    BY <2>4, <2>7
<1>2. ASSUME NEW i \in 1..n, NEW u \in parts[i] PROVE u \in first..(end - 1)
  <2>1. i - 1 \in 0..n /\ i \in 0..n /\ 0 \in 0..(i - 1) /\ n \in 0..n /\ i \in 0..n
    BY <1>0
  <2>2. cur[0] <= cur[i - 1] /\ cur[i] <= cur[n]
    BY <2>1, NeverBack
  <2>3. u \in cur[i - 1]..(cur[i] - 1)
    OBVIOUS
  <2>4. cur[0] \in Nat /\ cur[n] \in Nat /\ cur[i - 1] \in Nat /\ cur[i] \in Nat
    BY <1>0, <2>1
  <2> QED
    BY <2>2, <2>3, <2>4
<1>3. ASSUME NEW i \in 1..n, NEW j \in 1..n, i < j PROVE parts[i] \cap parts[j] = {}
  <2>1. j - 1 \in 0..n /\ i \in 0..(j - 1) /\ i \in 0..n /\ i - 1 \in 0..n /\ j \in 0..n
    BY <1>0, <1>3
  <2>2. cur[i] <= cur[j - 1]
    BY <2>1, NeverBack
  <2>3. \A k \in {i - 1, i, j - 1, j} : cur[k] \in Nat
    BY <1>0, <2>1
  <2>4. parts[i] = cur[i - 1]..(cur[i] - 1) /\ parts[j] = cur[j - 1]..(cur[j] - 1)
    OBVIOUS
  <2> QED
    BY <2>2, <2>3, <2>4
<1>4. ASSUME NEW i \in 1..n, NEW j \in 1..n, i # j PROVE parts[i] \cap parts[j] = {}
  BY <1>0, <1>3, <1>4
<1>5. UNION {parts[i] : i \in DOMAIN parts} = first..(end - 1)
  BY <1>1, <1>2
<1> QED
  BY <1>4, <1>5 DEF Tile

\* The cursor of build_blob is what its loop makes it.
LEMMA CursorsAre ==
    ASSUME NEW sizes \in Seq(Nat)
    PROVE  /\ Cursors(sizes)[0] = PayloadOffset
           /\ \A i \in 1..Len(sizes) : Cursors(sizes)[i] = Cursors(sizes)[i - 1] + sizes[i]
           /\ Advancing(Cursors(sizes), Len(sizes))
<1> DEFINE Upto(n, f) ==
             /\ f \in [0..n -> Nat] /\ f[0] = PayloadOffset
             /\ \A i \in 1..n : f[i] = f[i - 1] + sizes[i]
           D == {n \in 0..Len(sizes) : ~\E f : Upto(n, f)}
<1>0. Len(sizes) \in Nat /\ (\A i \in 1..Len(sizes) : sizes[i] \in Nat)
      /\ PayloadOffset \in Nat
  BY DEF PayloadOffset
<1>1. ASSUME D # {} PROVE FALSE
  <2>1. D \in SUBSET Nat
    OBVIOUS
  <2>2. PICK n \in D : \A l \in D : n <= l
    BY <1>1, <2>1, Least
  <2>3. n # 0
    <3>1. Upto(0, [i \in 0..0 |-> PayloadOffset])
      BY <1>0
    <3> QED
      BY <2>2, <3>1
  <2>4. n \in 1..Len(sizes) /\ n - 1 \in 0..Len(sizes) /\ n - 1 \notin D
    <3>1. n \in 0..Len(sizes)
      BY <2>2
    <3> HIDE DEF D
    <3> QED
      BY <1>0, <2>2, <2>3, <3>1
  <2>5. PICK f : Upto(n - 1, f)
    BY <2>4
  <2> DEFINE g == [i \in 0..n |-> IF i = n THEN f[n - 1] + sizes[n] ELSE f[i]]
  <2>6. f[n - 1] \in Nat /\ sizes[n] \in Nat
    BY <1>0, <2>4, <2>5
  <2>7. g \in [0..n -> Nat]
    BY <2>4, <2>5, <2>6
  <2>8. g[0] = PayloadOffset
    BY <2>4, <2>5
  <2>9. ASSUME NEW i \in 1..n PROVE g[i] = g[i - 1] + sizes[i]
    <3>1. CASE i = n
      BY <2>4, <3>1
    <3>2. CASE i # n
      <4>1. i \in 1..(n - 1) /\ i - 1 # n /\ i - 1 \in 0..n
        BY <2>4, <3>2
      <4> QED
        BY <2>5, <3>2, <4>1
    <3> QED
      BY <3>1, <3>2
  <2>10. Upto(n, g)
    BY <2>7, <2>8, <2>9
  <2> QED
    BY <2>2, <2>10
<1>2. Len(sizes) \notin D /\ Len(sizes) \in 0..Len(sizes)
  BY <1>0, <1>1
<1>3. PICK f : Upto(Len(sizes), f)
  BY <1>2
<1> DEFINE Loop(h) == [i \in 0..Len(sizes) |->
                         IF i = 0 THEN PayloadOffset ELSE h[i - 1] + sizes[i]]
           c == Cursors(sizes)
<1>4. f = Loop(f)
  BY <1>0, <1>3
<1>5. c = CHOOSE h : h = Loop(h)
  BY DEF Cursors
<1>6. c = Loop(c)
  BY <1>4, <1>5
<1> HIDE DEF c
<1>7. c[0] = PayloadOffset /\ \A i \in 1..Len(sizes) : c[i] = c[i - 1] + sizes[i]
  <2>1. \A i \in 0..Len(sizes) :
          c[i] = IF i = 0 THEN PayloadOffset ELSE c[i - 1] + sizes[i]
    BY <1>6, Zenon
  <2> QED
    BY <1>0, <2>1
<1>8. \A i \in 0..Len(sizes) : c[i] \in Nat
  <2> DEFINE E == {k \in 0..Len(sizes) : c[k] \notin Nat}
  <2>1. ASSUME E # {} PROVE FALSE
    <3>1. E \in SUBSET Nat
      OBVIOUS
    <3>2. PICK k \in E : \A l \in E : k <= l
      BY <2>1, <3>1, Least
    <3>3. k # 0
      BY <1>0, <1>7, <3>2
    <3>4. k \in 1..Len(sizes) /\ k - 1 \in 0..Len(sizes) /\ k - 1 \notin E
      BY <1>0, <3>2, <3>3
    <3>5. c[k - 1] \in Nat /\ sizes[k] \in Nat /\ c[k] = c[k - 1] + sizes[k]
      BY <1>0, <1>7, <3>4
    <3> QED
      BY <3>2, <3>5
  <2> QED
    BY <2>1
<1>9. c \in [0..Len(sizes) -> Nat]
  BY <1>6, <1>8
<1>10. ASSUME NEW i \in 1..Len(sizes) PROVE c[i - 1] <= c[i]
  <2>1. i - 1 \in 0..Len(sizes) /\ sizes[i] \in Nat
    BY <1>0
  <2>2. c[i - 1] \in Nat /\ c[i] = c[i - 1] + sizes[i]
    BY <1>7, <1>8, <2>1
  <2> QED
    BY <2>1, <2>2
<1> QED
  BY <1>0, <1>7, <1>9, <1>10 DEF Advancing, c

-----------------------------------------------------------------------------
(* Images: what each tool accepts *)

\* What PartsInPlace says of an image of each kind and what became of it.
CapsuleTiles(c, outcome) ==
    outcome # <<>> =>
      Tile([i \in 1..TableSize |-> Extent(outcome[i].offset, outcome[i].size)],
           (BupHeader + TableSize * BupEntry)..(c.length - c.offset - 1))

SlotsInOrder(c, outcome) ==
    outcome # {} =>
      LET slot == [i \in 1..TableSize |-> PaddedSlot(c.slots[i])]
      IN  /\ \A i, j \in 1..TableSize : i < j =>
               \A u \in slot[i], v \in slot[j] : u < v
          /\ \A i \in 1..TableSize : slot[i] \subseteq BchHeader..(c.length - 1)
          /\ c.length - 1 \in slot[TableSize]
          /\ outcome \subseteq slot[1]

AllDigested(c, outcome) ==
    outcome =>
      LET length == c.length - MetadataSize(c.count)
      IN  /\ DigestedChunks(c.count, length) = Extent(0, length)
          /\ DigestedChunks(c.count - 1, length) # Extent(0, length)

BlobTiles(c, outcome) ==
    ManifestFits(c.sizes) =>
      /\ VerifyBlob(outcome, c.sizes)
      /\ Tile([i \in DOMAIN c.sizes |->
                 Extent(outcome.records[i].offset, outcome.records[i].size)],
              PayloadOffset..(outcome.length - 1))

PagesTile(c, outcome) ==
    outcome # Failed =>
      LET parts == <<Extent(0, BootHeader), outcome.kernel, outcome.ramdisk>>
      IN  /\ Tile([i \in 1..3 |-> Pages(parts[i], c.page)], Extent(0, outcome.length))
          /\ First(outcome.kernel) % c.page = 0
          /\ First(outcome.ramdisk) % c.page = 0
          /\ \A u \in outcome.kernel, v \in outcome.ramdisk : u < v

\* An accepted BUP.
LEMMA CapsuleCase ==
    ASSUME NEW c \in Capsules
    PROVE  CapsuleTiles(c, ParseCapsule(c, TableSize, BupSpecs))
<1> DEFINE outcome == ParseCapsule(c, TableSize, BupSpecs)
           table == c.blob.table
           end == c.blob.length
           cur == [i \in 0..TableSize |->
                     IF i = 0 THEN BupHeader + TableSize * BupEntry
                     ELSE table[i].offset + table[i].size]
<1>1. /\ table \in [1..TableSize -> BupEntries] /\ end \in Nat /\ c.offset = 2
      /\ c.length \in Nat
  BY LargestAssumption DEF Capsules
<1> SUFFICES ASSUME outcome # <<>>
             PROVE  Tile([i \in 1..TableSize |->
                            Extent(outcome[i].offset, outcome[i].size)],
                         (BupHeader + TableSize * BupEntry)..(c.length - c.offset - 1))
  BY DEF CapsuleTiles
<1>2. /\ outcome = ParseBup(c.blob, TableSize) /\ outcome # <<>>
      /\ c.offset + c.blob.declared = c.length
  BY DEF ParseCapsule
<1>3. /\ outcome = table
      /\ c.blob.declared = end
      /\ \A i \in 1..TableSize :
           /\ Contiguous(table[i].offset,
                         IF i = 1 THEN BupHeader + TableSize * BupEntry
                         ELSE table[i - 1].offset + table[i - 1].size)
           /\ table[i].size > 0
      /\ (IF TableSize + 1 = 1 THEN BupHeader + TableSize * BupEntry
          ELSE table[(TableSize + 1) - 1].offset + table[(TableSize + 1) - 1].size) = end
  BY <1>2 DEF ParseBup
<1>4. /\ TableSize \in Nat /\ TableSize > 0 /\ (TableSize + 1) - 1 = TableSize
      /\ TableSize + 1 # 1 /\ BupHeader + TableSize * BupEntry \in Nat
  BY LargestAssumption DEF BupHeader, BupEntry
<1>5. \A i \in 1..TableSize : table[i].offset \in Nat /\ table[i].size \in Nat
  <2>1. \A e \in BupEntries : e.offset \in Nat /\ e.size \in Nat
    BY LargestAssumption DEF BupEntries, BupHeader
  <2>2. \A i \in 1..TableSize : table[i] \in BupEntries
    BY <1>1
  <2> HIDE DEF table
  <2> QED
    BY <2>1, <2>2
<1> HIDE DEF table, end, outcome
<1>6. cur \in [0..TableSize -> Nat]
  BY <1>4, <1>5
<1>7. ASSUME NEW i \in 1..TableSize
      PROVE  cur[i - 1] = table[i].offset /\ cur[i] = table[i].offset + table[i].size
  <2>1. i \in 0..TableSize /\ i - 1 \in 0..TableSize /\ i # 0 /\ (i - 1 = 0 <=> i = 1)
    BY <1>4
  <2>2. cur[i] = table[i].offset + table[i].size
    BY <2>1
  <2>3. cur[i - 1] = IF i = 1 THEN BupHeader + TableSize * BupEntry
                     ELSE table[i - 1].offset + table[i - 1].size
    BY <2>1
  <2> QED
    BY <1>3, <2>2, <2>3 DEF Contiguous
<1>8. cur[0] = BupHeader + TableSize * BupEntry /\ cur[TableSize] = end
  BY <1>3, <1>4
<1> HIDE DEF cur
<1>9. Advancing(cur, TableSize)
  <2>1. ASSUME NEW i \in 1..TableSize PROVE cur[i - 1] <= cur[i]
    BY <1>5, <1>7
  <2> QED
    BY <1>4, <1>6, <2>1 DEF Advancing
<1> DEFINE parts == [i \in 1..TableSize |-> Extent(outcome[i].offset, outcome[i].size)]
<1>10. \A i \in 1..TableSize : parts[i] = cur[i - 1]..(cur[i] - 1)
  <2> TAKE i \in 1..TableSize
  <2>1. parts[i] = table[i].offset..(table[i].offset + table[i].size - 1)
    BY <1>3 DEF Extent
  <2>2. cur[i - 1] = table[i].offset /\ cur[i] = table[i].offset + table[i].size
    BY <1>7
  <2>3. cur[i] - 1 = table[i].offset + table[i].size - 1
    BY <1>5, <2>2
  <2> HIDE DEF parts
  <2> QED
    BY <2>1, <2>2, <2>3
<1>11. DOMAIN parts = 1..TableSize
  OBVIOUS
<1> HIDE DEF parts
<1>12. Tile(parts, (BupHeader + TableSize * BupEntry)..(end - 1))
  BY <1>8, <1>9, <1>10, <1>11, CursorTiles
<1>13. c.length - c.offset - 1 = end - 1
  BY <1>1, <1>2, <1>3 DEF end
<1> QED
  BY <1>12, <1>13 DEF parts

\* A blob as build_blob makes it.
LEMMA ManifestCase ==
    ASSUME NEW c \in Manifests
    PROVE  BlobTiles(c, BuildBlob(c.sizes))
<1> DEFINE sizes == c.sizes
           n == Len(sizes)
           cur == Cursors(sizes)
           blob == BuildBlob(sizes)
<1>1. sizes \in Seq(Nat)
  <2>1. PICK m \in 0..(2 * TableSize) : c.sizes \in [1..m -> 0..Piece]
    BY DEF Manifests
  <2>2. c.sizes \in [1..m -> Nat] /\ m \in Nat
    BY <2>1, LargestAssumption
  <2> QED
    BY <2>2
<1>2. n \in Nat /\ DOMAIN sizes = 1..n /\ \A i \in 1..n : sizes[i] \in Nat
  BY <1>1
<1>3. /\ cur[0] = PayloadOffset /\ \A i \in 1..n : cur[i] = cur[i - 1] + sizes[i]
      /\ Advancing(cur, n)
  BY <1>1, CursorsAre
<1>4. /\ blob.records = [i \in 1..n |-> [offset |-> cur[i - 1], size |-> sizes[i]]]
      /\ blob.length = cur[n]
  BY <1>2 DEF BuildBlob
<1> HIDE DEF sizes, n, cur, blob
<1>5. \A i \in 1..n : /\ blob.records[i] = [offset |-> cur[i - 1], size |-> sizes[i]]
                      /\ blob.records[i].offset = cur[i - 1]
                      /\ blob.records[i].size = sizes[i]
  <2> TAKE i \in 1..n
  <2> DEFINE record == [offset |-> cur[i - 1], size |-> sizes[i]]
  <2>1. record.offset = cur[i - 1] /\ record.size = sizes[i]
    OBVIOUS
  <2>2. blob.records[i] = record
    BY <1>4
  <2> HIDE DEF record
  <2>3. blob.records[i].offset = cur[i - 1] /\ blob.records[i].size = sizes[i]
    BY <2>1, <2>2
  <2> QED
    BY <2>2, <2>3 DEF record
<1>6. \A i \in 0..n : cur[i] \in Nat
  BY <1>3 DEF Advancing
<1>7. VerifyBlob(blob, sizes)
  <2> DEFINE Cursor(i) == IF i = 0 THEN PayloadOffset
                          ELSE blob.records[i].offset + blob.records[i].size
  <2>1. \A i \in 0..n : Cursor(i) = cur[i]
    <3> TAKE i \in 0..n
    <3>1. CASE i = 0
      BY <1>3, <3>1
    <3>2. CASE i # 0
      <4>1. i \in 1..n
        BY <1>2, <3>2
      <4>2. blob.records[i].offset = cur[i - 1] /\ blob.records[i].size = sizes[i]
        BY <1>5, <4>1
      <4> QED
        BY <1>3, <3>2, <4>1, <4>2
    <3> QED
      BY <3>1, <3>2
  <2>2. blob.length >= PayloadOffset
    <3>1. 0 \in 0..n /\ n \in 0..n
      BY <1>2
    <3> QED
      BY <1>3, <1>4, <3>1, NeverBack
  <2>3. Len(blob.records) = n
    BY <1>2, <1>4
  <2>4. \A i \in 1..n : blob.records[i] = [offset |-> Cursor(i - 1), size |-> sizes[i]]
    <3> TAKE i \in 1..n
    <3>1. i - 1 \in 0..n
      BY <1>2
    <3>2. Cursor(i - 1) = cur[i - 1]
      BY <2>1, <3>1
    <3> HIDE DEF Cursor
    <3> QED
      BY <1>5, <3>2
  <2>5. blob.length = Cursor(n)
    <3>1. n \in 0..n
      BY <1>2
    <3> HIDE DEF Cursor
    <3> QED
      BY <1>4, <2>1, <3>1
  <2> HIDE DEF Cursor
  <2>6. DOMAIN sizes = 1..n /\ Len(sizes) = n
    BY <1>2 DEF n
  <2> QED
    BY <2>2, <2>3, <2>4, <2>5, <2>6 DEF VerifyBlob, Cursor
<1> DEFINE parts == [i \in 1..n |-> Extent(blob.records[i].offset, blob.records[i].size)]
<1>8. \A i \in 1..n : parts[i] = cur[i - 1]..(cur[i] - 1)
  <2> TAKE i \in 1..n
  <2>1. parts[i] = cur[i - 1]..(cur[i - 1] + sizes[i] - 1)
    <3>1. blob.records[i].offset = cur[i - 1] /\ blob.records[i].size = sizes[i]
      BY <1>5
    <3>2. parts[i] = Extent(blob.records[i].offset, blob.records[i].size)
      OBVIOUS
    <3> HIDE DEF parts
    <3> QED
      BY <3>1, <3>2 DEF Extent
  <2>2. cur[i] = cur[i - 1] + sizes[i]
    BY <1>3
  <2>3. cur[i - 1] \in Nat /\ sizes[i] \in Nat
    BY <1>2, <1>6
  <2>4. cur[i] - 1 = cur[i - 1] + sizes[i] - 1
    BY <2>2, <2>3
  <2> HIDE DEF parts
  <2> QED
    BY <2>1, <2>4
<1>9. DOMAIN parts = 1..n
  OBVIOUS
<1> HIDE DEF parts
<1>10. Tile(parts, PayloadOffset..(blob.length - 1))
  <2>1. Tile(parts, PayloadOffset..(cur[n] - 1))
    BY <1>3, <1>8, <1>9, CursorTiles
  <2> QED
    BY <1>4, <2>1
<1> QED
  BY <1>2, <1>7, <1>10 DEF BlobTiles, parts, sizes, blob

\* Rounding up, by the units the images have.
LEMMA Rounded ==
    ASSUME NEW n \in Nat, NEW unit \in {2, 3, 4, 8}
    PROVE  /\ RoundUp(n, unit) \in Nat /\ RoundUp(n, unit) >= n
           /\ RoundUp(n, unit) < n + unit
           /\ RoundUp(n, unit) % unit = 0
<1>1. CASE unit = 2
  BY <1>1 DEF RoundUp
<1>2. CASE unit = 3
  BY <1>2 DEF RoundUp
<1>3. CASE unit = 4
  BY <1>3 DEF RoundUp
<1>4. CASE unit = 8
  BY <1>4 DEF RoundUp
<1> QED
  BY <1>1, <1>2, <1>3, <1>4

\* An accepted memory component: the ends of the padded slots are a cursor.
LEMMA MemoryCase ==
    ASSUME NEW c \in MemoryComponents
    PROVE  SlotsInOrder(c, MemorySlotZero(c))
<1> DEFINE outcome == MemorySlotZero(c)
           slots == c.slots
           n == TableSize
           Start(i) == slots[i].block * MemoryBlock
           Padded(i) == RoundUp(Start(i) + slots[i].size, MemoryBlock)
<1>1. /\ slots \in [1..n -> [size : 0..Piece, block : 0..Piece]] /\ c.length \in Nat
      /\ n \in Nat /\ n > 0
  BY LargestAssumption DEF MemoryComponents
<1>2. Len(slots) = n
  BY <1>1
<1> DEFINE slot == [i \in 1..n |-> PaddedSlot(slots[i])]
<1> SUFFICES ASSUME outcome # {}
             PROVE  /\ \A i, j \in 1..n : i < j => \A u \in slot[i], v \in slot[j] : u < v
                    /\ \A i \in 1..n : slot[i] \subseteq 2..(c.length - 1)
                    /\ c.length - 1 \in slot[n]
                    /\ outcome \subseteq slot[1]
  BY DEF SlotsInOrder, BchHeader
<1>3. /\ \A i \in 1..n : /\ slots[i].size > 0
                         /\ Start(i) >= BchHeader
                         /\ Padded(i) <= c.length
                         /\ i > 1 => Start(i) >= Padded(i - 1)
      /\ Padded(n) = c.length
      /\ outcome = Extent(Start(1), slots[1].size)
  BY <1>2 DEF MemorySlotZero
<1>4. \A i \in 1..n : slots[i].size \in Nat /\ slots[i].block \in Nat
  <2>1. \A e \in [size : 0..Piece, block : 0..Piece] : e.size \in Nat /\ e.block \in Nat
    BY LargestAssumption
  <2> QED
    BY <1>1, <2>1
<1>5. ASSUME NEW i \in 1..n
      PROVE  /\ Start(i) \in Nat /\ Start(i) >= 2
             /\ Padded(i) \in Nat /\ Padded(i) >= Start(i) + slots[i].size
             /\ slots[i].size \in Nat /\ slots[i].size > 0
             /\ slot[i] = Start(i)..(Padded(i) - 1)
  <2>1. Start(i) \in Nat /\ slots[i].size \in Nat /\ Start(i) + slots[i].size \in Nat
    BY <1>4 DEF MemoryBlock
  <2>2. Padded(i) \in Nat /\ Padded(i) >= Start(i) + slots[i].size
    <3>1. MemoryBlock \in {2, 3, 4, 8}
      BY DEF MemoryBlock
    <3> HIDE DEF Start
    <3> QED
      BY <2>1, <3>1, Rounded
  <2>3. Start(i) >= 2 /\ slots[i].size > 0
    BY <1>3 DEF BchHeader
  <2>4. slot[i] = Extent(Start(i), Padded(i) - Start(i))
    BY DEF PaddedSlot
  <2> HIDE DEF Start, Padded, slots, slot
  <2>5. Start(i) + (Padded(i) - Start(i)) - 1 = Padded(i) - 1
    BY <2>1, <2>2
  <2> QED
    BY <2>1, <2>2, <2>3, <2>4, <2>5 DEF Extent
<1>6. outcome = Start(1)..(Start(1) + slots[1].size - 1)
  BY <1>3 DEF Extent
<1>7. \A i \in 1..n : Padded(i) <= c.length /\ (i > 1 => Start(i) >= Padded(i - 1))
  BY <1>3
<1>8. Padded(n) = c.length
  BY <1>3
<1> HIDE DEF outcome, slots, slot, n, Start, Padded
<1> DEFINE cur == [i \in 0..n |-> IF i = 0 THEN Start(1) ELSE Padded(i)]
<1>9. \A i \in 1..n : cur[i] = Padded(i) /\ cur[i - 1] \in Nat /\ cur[i - 1] <= Start(i)
  <2> TAKE i \in 1..n
  <2>1. i \in 0..n /\ i - 1 \in 0..n /\ i # 0 /\ 1 \in 1..n
    BY <1>1
  <2>2. cur[i] = Padded(i) /\ cur[i - 1] = IF i - 1 = 0 THEN Start(1) ELSE Padded(i - 1)
    BY <2>1
  <2>3. CASE i = 1
    BY <1>5, <2>1, <2>2, <2>3
  <2>4. CASE i # 1
    <3>1. i - 1 \in 1..n /\ i > 1 /\ i - 1 # 0
      BY <1>1, <2>4
    <3> QED
      BY <1>5, <1>7, <2>2, <3>1
  <2> QED
    BY <2>3, <2>4
<1>10. Advancing(cur, n)
  <2>1. \A i \in 0..n : cur[i] \in Nat
    <3> TAKE i \in 0..n
    <3>1. 1 \in 1..n /\ (i # 0 => i \in 1..n)
      BY <1>1
    <3> QED
      BY <1>5, <3>1
  <2>2. cur \in [0..n -> Nat]
    BY <2>1
  <2> HIDE DEF cur
  <2>3. ASSUME NEW i \in 1..n PROVE cur[i - 1] <= cur[i]
    BY <1>5, <1>9
  <2> QED
    BY <1>1, <2>2, <2>3 DEF Advancing
<1> HIDE DEF cur
<1>11. ASSUME NEW i \in 1..n, NEW j \in 1..n, i < j,
              NEW u \in slot[i], NEW v \in slot[j]
       PROVE  u < v
  <2>1. j - 1 \in 0..n /\ i \in 0..(j - 1)
    BY <1>1, <1>11
  <2>2. cur[i] <= cur[j - 1]
    BY <1>10, <2>1, NeverBack
  <2>3. Padded(i) <= Start(j)
    BY <1>5, <1>9, <2>2
  <2>4. Padded(i) \in Nat /\ Start(j) \in Nat
    BY <1>5
  <2>5. /\ slot[i] = Start(i)..(Padded(i) - 1) /\ slot[j] = Start(j)..(Padded(j) - 1)
        /\ Start(i) \in Nat /\ Padded(j) \in Nat
    BY <1>5
  <2> QED
    BY <2>3, <2>4, <2>5
<1>12. \A i, j \in 1..n : i < j => \A u \in slot[i], v \in slot[j] : u < v
  BY <1>11
<1>13. \A i \in 1..n : slot[i] \subseteq 2..(c.length - 1)
  <2> TAKE i \in 1..n
  <2>1. /\ Start(i) \in Nat /\ Start(i) >= 2 /\ Padded(i) \in Nat
        /\ slot[i] = Start(i)..(Padded(i) - 1)
    BY <1>5
  <2>2. Padded(i) <= c.length
    BY <1>7
  <2> QED
    BY <1>1, <2>1, <2>2
<1>14. c.length - 1 \in slot[n]
  BY <1>1, <1>5, <1>8
<1>15. outcome \subseteq slot[1]
  <2>1. 1 \in 1..n
    BY <1>1
  <2> QED
    BY <1>5, <1>6, <2>1
<1> QED
  BY <1>12, <1>13, <1>14, <1>15

\* An accepted compressed DCE.
LEMMA DceCase ==
    ASSUME NEW c \in Compressed
    PROVE  AllDigested(c, CompressedFits(c))
<1> DEFINE count == c.count
           length == c.length - MetadataSize(c.count)
<1> SUFFICES ASSUME CompressedFits(c)
             PROVE  /\ DigestedChunks(count, length) = Extent(0, length)
                    /\ DigestedChunks(count - 1, length) # Extent(0, length)
  BY DEF AllDigested
<1>1. count \in Nat /\ c.length \in Nat
  BY LargestAssumption DEF Compressed
<1>2. length \in Int
  <2>1. count + 1 \in Nat /\ Alignment \in {2, 3, 4, 8}
    BY <1>1 DEF Alignment
  <2>2. RoundUp(count + 1, Alignment) \in Nat
    BY <2>1, Rounded
  <2> QED
    BY <1>1, <2>2 DEF MetadataSize
<1>3. count > 0 /\ length > 0 /\ count = (length + 2) \div 3
  <2>1. count > 0 /\ length > 0 /\ count = ChunkCount(length)
    BY DEF CompressedFits
  <2> HIDE DEF count, length
  <2> QED
    BY <1>2, <2>1 DEF ChunkCount, Chunk
<1> HIDE DEF count, length
<1>4. length <= 3 * count /\ length > 3 * (count - 1)
  BY <1>1, <1>2, <1>3
<1>5. Extent(0, length) = 0..(length - 1)
  BY <1>2 DEF Extent
<1>6. ASSUME NEW n \in Nat, NEW u
      PROVE  u \in DigestedChunks(n, length)
               <=> u \in 0..(length - 1) /\ \E i \in 0..(n - 1) : u \in (3 * i)..(3 * i + 2)
  <2>1. \A i \in 0..(n - 1) : Extent(i * Chunk, Chunk) = (3 * i)..(3 * i + 2)
    BY DEF Extent, Chunk
  <2> QED
    <3>1. u \in DigestedChunks(n, length)
            <=> \E i \in 0..(n - 1) : u \in Extent(i * Chunk, Chunk) \cap Extent(0, length)
      BY DEF DigestedChunks
    <3> QED
      BY <1>5, <2>1, <3>1
<1>7. ASSUME NEW u \in 0..(length - 1) PROVE u \in DigestedChunks(count, length)
  <2>1. u \div 3 \in 0..(count - 1) /\ u \in (3 * (u \div 3))..(3 * (u \div 3) + 2)
    BY <1>1, <1>2, <1>4
  <2> QED
    BY <1>1, <1>6, <2>1
<1>8. DigestedChunks(count, length) = Extent(0, length)
  BY <1>1, <1>5, <1>6, <1>7
<1>9. length - 1 \in Extent(0, length)
  BY <1>2, <1>3, <1>5
<1>10. length - 1 \notin DigestedChunks(count - 1, length)
  <2>1. ASSUME NEW i \in 0..((count - 1) - 1), length - 1 \in (3 * i)..(3 * i + 2)
        PROVE FALSE
    BY <1>1, <1>2, <1>4, <2>1
  <2>2. count - 1 \in Nat
    BY <1>1, <1>3
  <2> QED
    BY <1>6, <2>1, <2>2
<1> QED
  BY <1>8, <1>9, <1>10

\* The pages of a part that begins with its page.
LEMMA PagesOf ==
    ASSUME NEW page \in {2, 4, 8}, NEW start \in Nat, start % page = 0,
           NEW size \in Nat, size # 0
    PROVE  Pages(Extent(start, size), page)
             = start..(start + RoundUp(size, page) - 1)
<1> DEFINE top == RoundUp(size, page)
<1>1. Extent(start, size) = start..(start + size - 1)
  BY DEF Extent
<1>2. top \in Nat /\ top >= size /\ top < size + page /\ top % page = 0
  <2>1. page \in {2, 3, 4, 8}
    OBVIOUS
  <2> QED
    BY <2>1, Rounded
<1> HIDE DEF top
<1>3. ASSUME NEW u \in start..(start + size - 1),
             NEW v \in Extent((u \div page) * page, page)
      PROVE  v \in start..(start + top - 1)
  <2>1. v \in ((u \div page) * page)..((u \div page) * page + page - 1)
    BY DEF Extent
  <2>2. CASE page = 2
    BY <1>2, <2>1, <2>2
  <2>3. CASE page = 4
    BY <1>2, <2>1, <2>3
  <2>4. CASE page = 8
    BY <1>2, <2>1, <2>4
  <2> QED
    BY <2>2, <2>3, <2>4
<1>4. ASSUME NEW v \in start..(start + top - 1)
      PROVE  \E u \in start..(start + size - 1) : v \in Extent((u \div page) * page, page)
  <2> DEFINE u == IF v < start + size THEN v ELSE start + size - 1
  <2>1. u \in start..(start + size - 1) /\ u \in Nat /\ v \in Nat /\ v >= u
        /\ v < u + page
    BY <1>2
  <2>2. /\ v = u \/ u = start + size - 1
        /\ start + size - 1 < v + 1 \/ v = u
    BY <1>2
  <2> HIDE DEF u
  <2>3. v \in ((u \div page) * page)..((u \div page) * page + page - 1)
    <3>1. CASE page = 2
      BY <1>2, <2>1, <2>2, <3>1
    <3>2. CASE page = 4
      BY <1>2, <2>1, <2>2, <3>2
    <3>3. CASE page = 8
      BY <1>2, <2>1, <2>2, <3>3
    <3> QED
      BY <3>1, <3>2, <3>3
  <2> QED
    BY <2>1, <2>3 DEF Extent
<1> QED
  BY <1>1, <1>3, <1>4 DEF Pages, top

\* A boot image.
LEMMA BootCase ==
    ASSUME NEW c \in BootImages
    PROVE  PagesTile(c, BuildImage(c.page, c.kernel, c.ramdisk))
<1> DEFINE outcome == BuildImage(c.page, c.kernel, c.ramdisk)
           page == c.page
           k == c.kernel
           r == c.ramdisk
           head == RoundUp(BootHeader, page)
           body == RoundUp(k, page)
           tail == RoundUp(r, page)
           parts == <<Extent(0, BootHeader), outcome.kernel, outcome.ramdisk>>
           pages == [i \in 1..3 |-> Pages(parts[i], page)]
<1> SUFFICES ASSUME outcome # Failed
             PROVE  /\ Tile(pages, Extent(0, outcome.length))
                    /\ First(outcome.kernel) % page = 0
                    /\ First(outcome.ramdisk) % page = 0
                    /\ \A u \in outcome.kernel, v \in outcome.ramdisk : u < v
  BY DEF PagesTile
<1>1. k \in Nat /\ r \in Nat
  BY LargestAssumption DEF BootImages
<1>2. /\ page \in {2, 4, 8} /\ k # 0 /\ r # 0
      /\ outcome = [kind |-> "image", kernel |-> Extent(head, k),
                    ramdisk |-> Extent(head + body, r), length |-> head + body + tail]
  BY DEF BuildImage
<1>3. /\ outcome.kernel = Extent(head, k) /\ outcome.ramdisk = Extent(head + body, r)
      /\ outcome.length = head + body + tail
  BY <1>2
<1>13. /\ parts[1] = Extent(0, BootHeader) /\ parts[2] = outcome.kernel
      /\ parts[3] = outcome.ramdisk
  OBVIOUS
<1> HIDE DEF outcome, k, r, page, parts
<1>4. /\ head \in Nat /\ head >= 3 /\ head % page = 0
      /\ body \in Nat /\ body >= k /\ body % page = 0
      /\ tail \in Nat /\ tail >= r
  <2>1. BootHeader \in Nat /\ page \in {2, 3, 4, 8}
    BY <1>2 DEF BootHeader
  <2>2. head \in Nat /\ head >= BootHeader /\ head % page = 0
    BY <2>1, Rounded
  <2>3. body \in Nat /\ body >= k /\ body % page = 0
    BY <1>1, <2>1, Rounded
  <2>4. tail \in Nat /\ tail >= r
    BY <1>1, <2>1, Rounded
  <2> HIDE DEF head, body, tail
  <2> QED
    BY <2>2, <2>3, <2>4 DEF BootHeader
<1>5. (head + body) % page = 0
  <2> HIDE DEF head, body, tail
  <2>1. CASE page = 2
    BY <1>4, <2>1
  <2>2. CASE page = 4
    BY <1>4, <2>2
  <2>3. CASE page = 8
    BY <1>4, <2>3
  <2> QED
    BY <1>2, <2>1, <2>2, <2>3
<1>6. /\ pages[1] = 0..(head - 1)
      /\ pages[2] = head..(head + body - 1)
      /\ pages[3] = (head + body)..(head + body + tail - 1)
  <2>1. Pages(Extent(0, BootHeader), page) = 0..(0 + head - 1)
    <3>1. BootHeader \in Nat /\ BootHeader # 0 /\ 0 \in Nat /\ 0 % page = 0
      BY <1>2 DEF BootHeader
    <3> QED
      BY <1>2, <3>1, PagesOf
  <2>2. Pages(Extent(head, k), page) = head..(head + body - 1)
    BY <1>1, <1>2, <1>4, PagesOf
  <2>3. Pages(Extent(head + body, r), page) = (head + body)..(head + body + tail - 1)
    <3>1. head + body \in Nat
      BY <1>4
    <3> DEFINE begin == head + body
    <3> HIDE DEF begin
    <3>2. Pages(Extent(begin, r), page) = begin..(begin + tail - 1)
      BY <1>1, <1>2, <1>5, <3>1, PagesOf DEF begin
    <3> QED
      BY <3>2 DEF begin
  <2>4. 0 + head - 1 = head - 1
    BY <1>4
  <2> HIDE DEF head, body, tail
  <2> QED
    BY <1>3, <1>13, <2>1, <2>2, <2>3, <2>4
<1> HIDE DEF head, body, tail
<1>7. DOMAIN pages = 1..3
  OBVIOUS
<1> HIDE DEF pages
<1>8. Extent(0, outcome.length) = 0..(head + body + tail - 1)
  BY <1>3, <1>4 DEF Extent
<1>9. Tile(pages, Extent(0, outcome.length))
  <2>1. 1..3 = {1, 2, 3}
    OBVIOUS
  <2>2. UNION {pages[i] : i \in DOMAIN pages} = pages[1] \cup pages[2] \cup pages[3]
    BY <1>7, <2>1
  <2>3. pages[1] \cup pages[2] \cup pages[3] = 0..(head + body + tail - 1)
    BY <1>4, <1>6
  <2>4. /\ pages[1] \cap pages[2] = {} /\ pages[1] \cap pages[3] = {}
        /\ pages[2] \cap pages[3] = {}
    BY <1>4, <1>6
  <2>5. \A i, j \in DOMAIN pages : i # j => pages[i] \cap pages[j] = {}
    BY <1>7, <2>1, <2>4
  <2> QED
    BY <1>8, <2>2, <2>3, <2>5 DEF Tile
<1>10. ASSUME NEW start \in Nat, NEW size \in Nat, size # 0
       PROVE  First(Extent(start, size)) = start
  <2>1. Extent(start, size) = start..(start + size - 1)
    BY DEF Extent
  <2>2. start \in start..(start + size - 1)
    BY <1>10
  <2>3. \A v \in start..(start + size - 1) : start <= v
    OBVIOUS
  <2>4. \A u \in start..(start + size - 1) :
          (\A v \in start..(start + size - 1) : u <= v) => u = start
    BY <2>2
  <2> QED
    BY <2>1, <2>2, <2>3, <2>4 DEF First
<1>11. First(outcome.kernel) = head /\ First(outcome.ramdisk) = head + body
  BY <1>1, <1>2, <1>3, <1>4, <1>10
<1>12. \A u \in outcome.kernel, v \in outcome.ramdisk : u < v
  <2>1. /\ Extent(head, k) = head..(head + k - 1)
        /\ Extent(head + body, r) = (head + body)..(head + body + r - 1)
    BY <1>1, <1>4 DEF Extent
  <2> QED
    BY <1>1, <1>3, <1>4, <2>1
<1> QED
  BY <1>4, <1>5, <1>9, <1>11, <1>12

-----------------------------------------------------------------------------
(* The inductive invariant of Images *)

\* What its tool makes of an image.
Outcome(c, outcome) ==
    /\ c.kind = "capsule"   => outcome = ParseCapsule(c, TableSize, BupSpecs)
    /\ c.kind = "memory"    => outcome = MemorySlotZero(c)
    /\ c.kind = "dce"       => outcome = CompressedFits(c)
    /\ c.kind = "manifest"  => outcome = BuildBlob(c.sizes)
    /\ c.kind = "boot"      => outcome = BuildImage(c.page, c.kernel, c.ramdisk)
    /\ c.kind = "component" => outcome = DisableAbsentCvbEeprom(c)

\* The image is one of those given to the tools, and once the tool was called
\* the result is what it makes of that image.
ImagesInv ==
    /\ image \in Capsules \cup MemoryComponents \cup Compressed \cup Manifests
                 \cup BootImages \cup Mb2Components
    /\ parsed => Outcome(image, result)

\* The sets of images are told apart by their kind.
LEMMA Kinds ==
    ASSUME NEW c
    PROVE  /\ c \in Capsules         => c.kind = "capsule"
           /\ c \in MemoryComponents => c.kind = "memory"
           /\ c \in Compressed       => c.kind = "dce"
           /\ c \in Manifests        => c.kind = "manifest"
           /\ c \in BootImages       => c.kind = "boot"
           /\ c \in Mb2Components    => c.kind = "component"
<1>1. c \in Capsules => c.kind = "capsule"
  BY DEF Capsules
<1>2. c \in MemoryComponents => c.kind = "memory"
  BY DEF MemoryComponents
<1>3. c \in Compressed => c.kind = "dce"
  BY DEF Compressed
<1>4. c \in Manifests => c.kind = "manifest"
  BY DEF Manifests
<1>5. c \in BootImages => c.kind = "boot"
  BY DEF BootImages
<1>6. c \in Mb2Components => c.kind = "component"
  BY Mb2Images DEF Mb2Image, Boxed
<1> QED
  BY <1>1, <1>2, <1>3, <1>4, <1>5, <1>6

\* The invariant holds before the call.
LEMMA ImagesInvInit == ImagesInit => ImagesInv
BY DEF ImagesInit, ImagesInv

\* The call keeps it.
LEMMA ImagesInvNext == ImagesInv /\ [ParseImage]_imageVars => ImagesInv'
<1> SUFFICES ASSUME ImagesInv, [ParseImage]_imageVars PROVE ImagesInv'
  OBVIOUS
<1>1. CASE ParseImage
  <2>1. image' = image
    BY <1>1 DEF ParseImage
  <2>2. Outcome(image, result')
    <3> DEFINE R == result'
    <3>1. R = CASE image.kind = "capsule"   -> ParseCapsule(image, TableSize, BupSpecs)
                [] image.kind = "memory"    -> MemorySlotZero(image)
                [] image.kind = "dce"       -> CompressedFits(image)
                [] image.kind = "manifest"  -> BuildBlob(image.sizes)
                [] image.kind = "boot" ->
                     BuildImage(image.page, image.kernel, image.ramdisk)
                [] image.kind = "component" -> DisableAbsentCvbEeprom(image)
      BY <1>1 DEF ParseImage
    <3> HIDE DEF R
    <3>2. Outcome(image, R)
      BY <3>1 DEF Outcome
    <3> QED
      BY <3>2 DEF R
  <2> QED
    BY <2>1, <2>2 DEF ImagesInv
<1>2. CASE UNCHANGED imageVars
  BY <1>2 DEF imageVars, ImagesInv
<1> QED
  BY <1>1, <1>2

\* Of every capsule, memory component, compressed body, manifest and boot image,
\* whatever its sizes: what a tool accepts or makes has its parts where
\* PartsInPlace says (parse_capsule, memory_slot_zero, compressed_dce_source,
\* build_blob, build_image).
THEOREM PartsInPlaceAlways == ImagesSpec => []PartsInPlace
<1>1. ImagesInv => PartsInPlace
  <2> SUFFICES ASSUME ImagesInv, parsed PROVE PartsInPlace
    BY Zenon DEF PartsInPlace
  <2>1. Outcome(image, result)
    BY DEF ImagesInv
  <2>2. CASE image \in Capsules
    <3>1. image.kind = "capsule" /\ CapsuleTiles(image, result)
      BY <2>1, <2>2, Kinds, CapsuleCase DEF Outcome
    <3> QED
      BY <3>1 DEF PartsInPlace, CapsuleTiles
  <2>3. CASE image \in MemoryComponents
    <3>1. image.kind = "memory" /\ SlotsInOrder(image, result)
      BY <2>1, <2>3, Kinds, MemoryCase DEF Outcome
    <3> QED
      BY <3>1 DEF PartsInPlace, SlotsInOrder
  <2>4. CASE image \in Compressed
    <3>1. image.kind = "dce" /\ AllDigested(image, result)
      BY <2>1, <2>4, Kinds, DceCase DEF Outcome
    <3> QED
      BY <3>1 DEF PartsInPlace, AllDigested
  <2>5. CASE image \in Manifests
    <3>1. image.kind = "manifest" /\ BlobTiles(image, result)
      BY <2>1, <2>5, Kinds, ManifestCase DEF Outcome
    <3> QED
      BY <3>1 DEF PartsInPlace, BlobTiles
  <2>6. CASE image \in BootImages
    <3>1. image.kind = "boot" /\ PagesTile(image, result)
      BY <2>1, <2>6, Kinds, BootCase DEF Outcome
    <3> QED
      BY <3>1 DEF PartsInPlace, PagesTile
  <2>7. CASE image \in Mb2Components
    BY <2>7, Kinds DEF PartsInPlace
  <2> QED
    BY <2>2, <2>3, <2>4, <2>5, <2>6, <2>7 DEF ImagesInv
<1> QED
  BY <1>1, ImagesInvInit, ImagesInvNext, PTL DEF ImagesSpec

\* Rewriting the EEPROM size of a genuine MB2 yields what signing would have
\* made of the rewritten payload, and rewriting it again changes nothing; what
\* is not such an MB2 is refused (disable_absent_cvb_eeprom,
\* rebuild_single_bch_payload).
THEOREM RewriteIsResigned == ImagesSpec => []RebuildAccepted
<1>1. ImagesInv => RebuildAccepted
  <2> SUFFICES ASSUME ImagesInv, image.kind = "component", parsed
      PROVE Rebuilds(image, result)
    BY Zenon DEF RebuildAccepted, Rebuilds
  <2>1. result = DisableAbsentCvbEeprom(image)
    BY DEF ImagesInv, Outcome
  <2>2. image \in Mb2Components
    BY Kinds DEF ImagesInv
  <2> QED
    BY <2>1, <2>2, Mb2Images, RebuildOutcome
<1> QED
  BY <1>1, ImagesInvInit, ImagesInvNext, PTL DEF ImagesSpec

-----------------------------------------------------------------------------
(* FamilyInputs: the capsule's entries *)

EntrySet ==
    {Entry(n, s) : n \in {"mb2", "bpmp-fw", "MB1_BCT"}, s \in Specs}
      \cup {Entry("psc-fw", Shared)}

\* The fields of an entry.
LEMMA EntryFields ==
    ASSUME NEW name, NEW spec
    PROVE  /\ Entry(name, spec).name = name
           /\ Entry(name, spec).tnspec = spec
           /\ Entry(name, spec).payload = Component(Magic(name), Raw(name, spec))
BY DEF Entry

\* The capsule has finitely many entries.
LEMMA EntriesFinite == IsFiniteSet(EntrySet)
<1> DEFINE Names == {"mb2", "bpmp-fw", "MB1_BCT"}
           Pairs == Names \X Specs
           T == {Entry(name, spec) : name \in Names, spec \in Specs}
           f == [p \in Pairs |-> Entry(p[1], p[2])]
<1>1. IsFiniteSet(Names)
  <2>1. IsFiniteSet({"mb2"}) /\ IsFiniteSet({"bpmp-fw"}) /\ IsFiniteSet({"MB1_BCT"})
    BY FS_Singleton
  <2>2. IsFiniteSet({"mb2"} \cup {"bpmp-fw"})
    BY <2>1, FS_Union
  <2>3. IsFiniteSet(({"mb2"} \cup {"bpmp-fw"}) \cup {"MB1_BCT"})
    BY <2>1, <2>2, FS_Union
  <2>4. Names = ({"mb2"} \cup {"bpmp-fw"}) \cup {"MB1_BCT"}
    OBVIOUS
  <2> QED
    BY <2>3, <2>4, Zenon
<1> HIDE DEF Names
<1>2. IsFiniteSet(Pairs)
  BY <1>1, SeedAssumption, FS_Product
<1>3. f \in Surjection(Pairs, T)
  <2>1. f \in [Pairs -> T]
    OBVIOUS
  <2>2. \A t \in T : \E p \in Pairs : f[p] = t
    <3> TAKE t \in T
    <3>1. PICK name \in Names, spec \in Specs : t = Entry(name, spec)
      OBVIOUS
    <3>2. <<name, spec>> \in Pairs /\ f[<<name, spec>>] = t
      BY <3>1
    <3> QED
      BY <3>2
  <2> QED
    BY <2>1, <2>2 DEF Surjection
<1>4. IsFiniteSet(T)
  BY <1>2, <1>3, FS_Surjection
<1> HIDE DEF T
<1>5. IsFiniteSet({Entry("psc-fw", Shared)})
  BY FS_Singleton
<1>6. IsFiniteSet(T \cup {Entry("psc-fw", Shared)})
  BY <1>4, <1>5, FS_Union
<1>7. EntrySet = T \cup {Entry("psc-fw", Shared)}
  BY DEF EntrySet, Names, T
<1> QED
  BY <1>6, <1>7, Zenon

\* Every entry is in the table, and in one place.
LEMMA EntriesListed ==
    /\ \A i \in DOMAIN Entries : Entries[i] \in EntrySet
    /\ \A e \in EntrySet : \E i \in DOMAIN Entries : Entries[i] = e
    /\ \A i, j \in DOMAIN Entries : Entries[i] = Entries[j] => i = j
<1> DEFINE n == Cardinality(EntrySet)
<1>1. Entries = SetToSeq(EntrySet)
  BY DEF Entries, EntrySet
<1>2. n \in Nat /\ ExistsBijection(1..n, EntrySet)
  BY EntriesFinite, FS_CardinalityType
<1>3. PICK f \in Bijection(1..n, EntrySet) : TRUE
  BY <1>2 DEF ExistsBijection
<1>4. f \in [1..n -> EntrySet] /\ IsInjective(f)
  BY <1>3 DEF Bijection, Injection, Surjection, IsInjective
<1>5. Entries \in [1..n -> EntrySet] /\ IsInjective(Entries)
  BY <1>1, <1>4 DEF SetToSeq
<1>6. IsFiniteSet(1..n) /\ Cardinality(1..n) = Cardinality(EntrySet)
  BY <1>2, FS_Interval
<1>7. Entries \in Injection(1..n, EntrySet)
  BY <1>5 DEF Injection, IsInjective
<1>8. Entries \in Surjection(1..n, EntrySet)
  BY <1>6, <1>7, EntriesFinite, FS_Injection
<1> QED
  BY <1>5, <1>8 DEF Surjection, IsInjective

\* Where an entry is in the table.
Listed(name, spec) ==
    {e \in DOMAIN Entries : Entries[e].name = name /\ Entries[e].tnspec = spec}

\* Where one entry has a name and a specification, it is the one chosen.
LEMMA EntryChosen ==
    ASSUME NEW name, NEW spec, Entry(name, spec) \in EntrySet
    PROVE  /\ Cardinality(Listed(name, spec)) = 1
           /\ Entries[CHOOSE e \in Listed(name, spec) : TRUE] = Entry(name, spec)
<1>1. \A d \in EntrySet : d = Entry(d.name, d.tnspec)
  BY EntryFields DEF EntrySet
<1>2. PICK i \in DOMAIN Entries : Entries[i] = Entry(name, spec)
  BY EntriesListed
<1>3. Listed(name, spec) = {i}
  <2>1. i \in Listed(name, spec)
    BY <1>2, EntryFields DEF Listed
  <2>2. ASSUME NEW j \in Listed(name, spec) PROVE j = i
    <3>1. /\ j \in DOMAIN Entries /\ Entries[j] \in EntrySet
          /\ Entries[j].name = name /\ Entries[j].tnspec = spec
      BY EntriesListed DEF Listed
    <3>2. Entries[j] = Entry(name, spec)
      BY <1>1, <3>1
    <3> QED
      BY <1>2, <3>1, <3>2, EntriesListed
  <2> QED
    BY <2>1, <2>2
<1>4. Cardinality(Listed(name, spec)) = 1
  BY <1>3, FS_Singleton
<1>5. (CHOOSE k \in Listed(name, spec) : TRUE) = i
  BY <1>3
<1> QED
  BY <1>2, <1>4, <1>5

\* What select_entry returns, in the two cases in which it does not fail.
LEMMA SelectEntryCases ==
    ASSUME NEW name, NEW spec
    PROVE  /\ Cardinality(Listed(name, spec)) = 1 =>
                SelectEntry(Entries, name, spec)
                  = Entries[CHOOSE e \in Listed(name, spec) : TRUE]
           /\ Listed(name, spec) = {} /\ Cardinality(Listed(name, Shared)) = 1 =>
                SelectEntry(Entries, name, spec)
                  = Entries[CHOOSE e \in Listed(name, Shared) : TRUE]
<1>1. SelectEntry(Entries, name, spec) =
        CASE Cardinality(Listed(name, spec)) = 1 ->
               Entries[CHOOSE e \in Listed(name, spec) : TRUE]
          [] Listed(name, spec) = {} /\ Cardinality(Listed(name, Shared)) = 1 ->
               Entries[CHOOSE e \in Listed(name, Shared) : TRUE]
          [] OTHER -> Failed
  BY Zenon DEF SelectEntry, Listed
<1>2. Listed(name, spec) = {} => Cardinality(Listed(name, spec)) # 1
  BY FS_EmptySet
<1> QED
  BY <1>1, <1>2

\* What select_entry finds for the components the builder asks for.
LEMMA Selected ==
    ASSUME NEW spec \in Specs
    PROVE  /\ \A name \in {"mb2", "bpmp-fw", "MB1_BCT"} :
                SelectEntry(Entries, name, spec) = Entry(name, spec)
           /\ SelectEntry(Entries, "psc-fw", spec) = Entry("psc-fw", Shared)
<1>1. ASSUME NEW name \in {"mb2", "bpmp-fw", "MB1_BCT"}
      PROVE  SelectEntry(Entries, name, spec) = Entry(name, spec)
  <2>1. Entry(name, spec) \in EntrySet
    BY DEF EntrySet
  <2>2. /\ Cardinality(Listed(name, spec)) = 1
        /\ Entries[CHOOSE e \in Listed(name, spec) : TRUE] = Entry(name, spec)
    BY <2>1, EntryChosen
  <2> QED
    BY <2>2, SelectEntryCases
<1>2. Entry("psc-fw", Shared) \in EntrySet
  BY DEF EntrySet
<1>3. /\ Cardinality(Listed("psc-fw", Shared)) = 1
      /\ Entries[CHOOSE e \in Listed("psc-fw", Shared) : TRUE] = Entry("psc-fw", Shared)
  BY <1>2, EntryChosen
<1>4. spec # Shared => Listed("psc-fw", spec) = {}
  <2>1. \A d \in EntrySet : d.name = "psc-fw" => d.tnspec = Shared
    BY EntryFields DEF EntrySet
  <2> QED
    BY <2>1, EntriesListed DEF Listed
<1>5. Cardinality({}) = 0
  BY FS_EmptySet
<1>6. SelectEntry(Entries, "psc-fw", spec) = Entry("psc-fw", Shared)
  <2>1. CASE spec = Shared
    BY <1>3, <2>1, SelectEntryCases
  <2>2. CASE spec # Shared
    <3>1. Listed("psc-fw", spec) = {} /\ Cardinality(Listed("psc-fw", spec)) # 1
      BY <1>4, <1>5, <2>2
    <3> QED
      BY <1>3, <3>1, SelectEntryCases
  <2> QED
    BY <2>1, <2>2
<1> QED
  BY <1>1, <1>6

-----------------------------------------------------------------------------
(* FamilyInputs: what a row of the index is of *)

\* The payload of a row, as InputsWhole has it.
RowOf(i, payload) ==
    /\ payload.payload.name = Rows[i].name
    /\ payload.payload.tnspec \in {profile, Shared}
    /\ Rows[i].name = "mb2" => payload.payload.cvb = 0 /\ SinglePayload(payload, "MB2B")

\* The fields of the rows.
LEMMA RowTypes ==
    /\ Len(Rows) = 6
    /\ DOMAIN Rows = 1..6
    /\ \A i \in 1..6 : Rows[i].name \in {"mb2", "bpmp-fw", "eks", "reserved", "psc-fw"}
    /\ \A i \in 1..6 : Rows[i].filename = <<>> <=> Rows[i].name = "reserved"
    /\ \A i \in 1..6 : QspiFilename(Rows[i]) # <<"mb1-recovery", Shared>>
BY DEF Rows, Row, QspiFilename

\* The fields of a payload.
LEMMA RawFields ==
    ASSUME NEW name, NEW spec
    PROVE  /\ Raw(name, spec).name = name
           /\ Raw(name, spec).tnspec = spec
BY DEF Raw

\* The payload of a row that has one is as InputsWhole wants it.
LEMMA RowPayloads ==
    ASSUME profile \in Specs, QualifiedSeed(signed), NEW i \in 1..6,
           Rows[i].filename # <<>>
    PROVE  RowOf(i, RowPayload(Rows[i]))
<1> DEFINE name == Rows[i].name
           payload == RowPayload(Rows[i])
<1>1. name \in {"mb2", "bpmp-fw", "eks", "psc-fw"}
  BY RowTypes
<1>2. payload = CASE name = "eks" -> SeedPayload("eks")
                  [] name = "mb2" ->
                       DisableAbsentCvbEeprom(SelectEntry(Entries, name, profile).payload)
                  [] OTHER -> SelectEntry(Entries, name, profile).payload
  BY DEF RowPayload
<1> SUFFICES /\ payload.payload.name = name
             /\ payload.payload.tnspec \in {profile, Shared}
             /\ name = "mb2" => payload.payload.cvb = 0 /\ SinglePayload(payload, "MB2B")
  BY DEF RowOf
<1> HIDE DEF name, payload
<1>3. CASE name = "mb2"
  <2> DEFINE raw == Raw("mb2", profile)
             off == [raw EXCEPT !.cvb = 0]
  <2>1. SelectEntry(Entries, name, profile).payload = Component("MB2B", raw)
    BY <1>3, Selected, EntryFields DEF Magic
  <2>2. /\ Mb2(raw) /\ raw.cvb # 0 /\ off.length = raw.length
        /\ off.name = "mb2" /\ off.tnspec = profile /\ off.cvb = 0
    BY DEF Mb2, Raw
  <2> HIDE DEF raw
  <2>3. payload = Component("MB2B", off)
    BY <1>2, <1>3, <2>1, <2>2, EepromDisabled
  <2>4. payload.payload = off /\ SinglePayload(payload, "MB2B")
    BY <2>3, ComponentGenuine
  <2> QED
    BY <1>3, <2>2, <2>4
<1>4. CASE name = "bpmp-fw"
  <2>1. payload = Component("MBCT", Raw("bpmp-fw", profile))
    BY <1>2, <1>4, Selected, EntryFields DEF Magic
  <2> QED
    BY <1>4, <2>1, ComponentGenuine, RawFields
<1>5. CASE name = "psc-fw"
  <2>1. payload = Component("MBCT", Raw("psc-fw", Shared))
    BY <1>2, <1>5, Selected, EntryFields DEF Magic
  <2> QED
    BY <1>5, <2>1, ComponentGenuine, RawFields
<1>6. CASE name = "eks"
  <2>1. payload = Component("MBCT", Raw("eks", Shared))
    BY <1>2, <1>6 DEF SeedPayload, QualifiedSeed, SeedFiles
  <2> QED
    BY <1>6, <2>1, ComponentGenuine, RawFields
<1> QED
  BY <1>1, <1>3, <1>4, <1>5, <1>6

-----------------------------------------------------------------------------
(* The inductive invariant of FamilyInputs *)

\* A sequence, of whatever it holds.
IsSequence(s) == s \in Seq({s[i] : i \in DOMAIN s})

\* A row of the index and the one file it names.
Kept(i, r, files) ==
    Rows[i].filename # <<>> =>
      \E f \in files : /\ f.name = r.filename
                       /\ f.name # <<"mb1-recovery", Shared>>
                       /\ r.digest = Digest(f.payload)
                       /\ RowOf(i, f.payload)

\* No name is used twice.
OneEach(files) ==
    /\ \A f \in files : f = [name |-> f.name, payload |-> f.payload]
    /\ \A f, g \in files : f.name = g.name => f = g

\* The recovery table of this module.
RcmTable(files) ==
    /\ \E f \in files : f.name = <<"mb1-recovery", Shared>>
    /\ \A f \in files : f.name = <<"mb1-recovery", Shared>> =>
         f.payload.payload = [Raw("MB1_BCT", profile) EXCEPT !.updated = TRUE]

Building == {"rows", "components", "publish"}

\* What a builder has done so far.
BuilderInv(b) ==
    bpc[b] \in Building =>
      /\ QualifiedSeed(signed)
      /\ row[b] \in 0..Len(Rows)
      /\ bpc[b] \in {"components", "publish"} => row[b] = Len(Rows)
      /\ IsSequence(index[b])
      /\ Len(index[b]) = row[b]
      /\ OneEach(temporary[b])
      /\ \A i \in 1..row[b] : Kept(i, index[b][i], temporary[b])
      /\ bpc[b] = "publish" => RcmTable(temporary[b])

FamilyInv ==
    /\ profile \in Specs
    /\ DOMAIN bpc = BuilderRuns
    /\ DOMAIN row = BuilderRuns
    /\ DOMAIN temporary = BuilderRuns
    /\ DOMAIN index = BuilderRuns
    /\ \A b \in BuilderRuns : row[b] \in 0..Len(Rows)
    /\ \A b \in BuilderRuns :
         /\ bpc[b] = "start" => row[b] = 0 /\ index[b] = <<>> /\ temporary[b] = {}
         /\ BuilderInv(b)

-----------------------------------------------------------------------------
(* The steps of FamilyInputs *)

\* A row appended to the index leaves those before it.
LEMMA AppendedRow ==
    ASSUME NEW s, IsSequence(s), NEW e
    PROVE  /\ IsSequence(Append(s, e))
           /\ Len(s) \in Nat
           /\ Len(Append(s, e)) = Len(s) + 1
           /\ \A i \in 1..Len(s) : Append(s, e)[i] = s[i]
           /\ Append(s, e)[Len(s) + 1] = e
<1> DEFINE S == {s[i] : i \in DOMAIN s} \cup {e}
           t == Append(s, e)
<1>1. s \in Seq(S) /\ e \in S
  <2>1. s \in Seq({s[i] : i \in DOMAIN s}) /\ Len(s) \in Nat /\ DOMAIN s = 1..Len(s)
    BY DEF IsSequence
  <2>2. \A i \in 1..Len(s) : s[i] \in S
    BY <2>1
  <2> QED
    BY <2>1, <2>2
<1> HIDE DEF S
<1>2. t \in Seq(S) /\ Len(s) \in Nat /\ Len(t) = Len(s) + 1
  BY <1>1
<1>3. (\A i \in 1..Len(s) : t[i] = s[i]) /\ t[Len(s) + 1] = e
  BY <1>1
<1> HIDE DEF t
<1>4. IsSequence(t)
  BY <1>2 DEF IsSequence
<1> QED
  BY <1>2, <1>3, <1>4 DEF t

\* Putting a file adds that file to the others, unless it fails.
LEMMA FilePut ==
    ASSUME NEW files, OneEach(files), NEW name, NEW payload,
           PutFile(files, name, payload) # {}
    PROVE  LET put == PutFile(files, name, payload)
           IN  /\ OneEach(put)
               /\ files \subseteq put
               /\ [name |-> name, payload |-> payload] \in put
<1> DEFINE added == [name |-> name, payload |-> payload]
           put == PutFile(files, name, payload)
<1>1. /\ \A f \in files : f.name = name => f.payload = payload
      /\ put = files \cup {added}
  BY DEF PutFile, Named
<1>2. added.name = name /\ added.payload = payload
  OBVIOUS
<1>3. \A f \in files : f.name = name => f = added
  BY <1>1 DEF OneEach
<1> HIDE DEF put, added
<1>4. added = [name |-> added.name, payload |-> added.payload]
  BY <1>2 DEF added
<1>5. OneEach(put)
  BY <1>1, <1>2, <1>3, <1>4 DEF OneEach
<1> QED
  BY <1>1, <1>5 DEF put, added

\* What was kept stays when files are added.
LEMMA KeptStays ==
    ASSUME NEW i, NEW r, NEW files, NEW more, files \subseteq more, Kept(i, r, files)
    PROVE  Kept(i, r, more)
BY DEF Kept

\* The seed generator leaves a seed that is whole, and the builders, alone.
LEMMA GeneratorStep ==
    ASSUME NEW g, Generator(g)
    PROVE  UNCHANGED buildVars /\ (QualifiedSeed(signed) => signed' = signed)
<1>1. CASE StartSeed(g)
  BY <1>1 DEF StartSeed
<1>2. CASE Download(g)
  BY <1>2 DEF Download
<1>3. CASE VerifyArchive(g)
  BY <1>3 DEF VerifyArchive
<1>4. CASE MakeSeedDirectory(g)
  BY <1>4 DEF MakeSeedDirectory
<1>5. CASE Sign(g)
  BY <1>5 DEF Sign
<1>6. CASE VerifyGenerated(g)
  BY <1>6 DEF VerifyGenerated
<1>7. CASE CopySeedFile(g)
  BY <1>7 DEF CopySeedFile, QualifiedSeed
<1>8. CASE FinishSeed(g)
  BY <1>8 DEF FinishSeed
<1>9. CASE FailSeed(g)
  BY <1>9 DEF FailSeed
<1> QED
  BY <1>1, <1>2, <1>3, <1>4, <1>5, <1>6, <1>7, <1>8, <1>9 DEF Generator

\* A builder whose own state stays keeps what it has done.
LEMMA BuilderStays ==
    ASSUME NEW b, BuilderInv(b),
           bpc'[b] = bpc[b], row'[b] = row[b], temporary'[b] = temporary[b],
           index'[b] = index[b], profile' = profile,
           QualifiedSeed(signed) => signed' = signed
    PROVE  BuilderInv(b)'
<1> SUFFICES ASSUME bpc[b] \in Building PROVE BuilderInv(b)'
  BY DEF BuilderInv
<1>1. QualifiedSeed(signed) /\ signed' = signed
  BY DEF BuilderInv
<1>2. ASSUME NEW i \in 1..row[b] PROVE Kept(i, index[b][i], temporary[b])'
  <2>1. Kept(i, index[b][i], temporary[b])
    BY DEF BuilderInv
  <2> QED
    BY <2>1 DEF Kept, RowOf
<1>3. RcmTable(temporary[b]) => RcmTable(temporary[b])'
  BY DEF RcmTable
<1>4. QualifiedSeed(signed)'
  BY <1>1 DEF QualifiedSeed
<1>5. OneEach(temporary[b])'
  BY DEF BuilderInv, OneEach
<1> QED
  BY <1>2, <1>3, <1>4, <1>5 DEF BuilderInv

\* What every step of a builder leaves of the others.
LEMMA OthersStay ==
    ASSUME FamilyInv, NEW b \in BuilderRuns, Build(b)
    PROVE  /\ UNCHANGED <<seedVars, profile, agree>>
           /\ DOMAIN bpc' = BuilderRuns /\ DOMAIN row' = BuilderRuns
           /\ DOMAIN temporary' = BuilderRuns /\ DOMAIN index' = BuilderRuns
           /\ \A o \in BuilderRuns : o # b =>
                /\ bpc'[o] = bpc[o] /\ row'[o] = row[o]
                /\ temporary'[o] = temporary[o] /\ index'[o] = index[o]
<1>0. /\ DOMAIN bpc = BuilderRuns /\ DOMAIN row = BuilderRuns
      /\ DOMAIN temporary = BuilderRuns /\ DOMAIN index = BuilderRuns
  BY DEF FamilyInv
<1>1. CASE StartBuild(b)
  BY <1>0, <1>1 DEF StartBuild, Proceed
<1>2. CASE BuildRow(b)
  BY <1>0, <1>2 DEF BuildRow, AbortBuild, Proceed
<1>3. CASE PutCommon(b)
  BY <1>0, <1>3 DEF PutCommon, AbortBuild, Proceed
<1>4. CASE BuildRcmComponents(b)
  BY <1>0, <1>4 DEF BuildRcmComponents, AbortBuild, Proceed
<1>5. CASE PublishInputs(b)
  BY <1>0, <1>5 DEF PublishInputs, AbortBuild, Proceed
<1>6. CASE FailBuild(b)
  BY <1>0, <1>6 DEF FailBuild, AbortBuild, Proceed
<1>7. CASE DieBuilding(b)
  BY <1>0, <1>7 DEF DieBuilding, Proceed
<1> QED
  BY <1>1, <1>2, <1>3, <1>4, <1>5, <1>6, <1>7 DEF Build

\* A builder that is not building any more.
LEMMA BuilderEnds ==
    ASSUME NEW b, bpc'[b] = "ended"
    PROVE  /\ bpc'[b] # "start"
           /\ BuilderInv(b)'
BY DEF BuilderInv, Building

\* The steps of a builder, one by one: its start,
LEMMA StartBuildStep ==
    ASSUME FamilyInv, NEW b \in BuilderRuns, StartBuild(b)
    PROVE  bpc'[b] # "start" /\ BuilderInv(b)'
<1>1. /\ bpc[b] = "start" /\ row[b] = 0 /\ index[b] = <<>> /\ temporary[b] = {}
      /\ bpc' = [bpc EXCEPT ![b] = IF inputs.present \/ ~QualifiedSeed(signed)
                                   THEN "ended" ELSE "rows"]
      /\ DOMAIN bpc = BuilderRuns
      /\ UNCHANGED <<signed, row, index, temporary>>
  BY DEF FamilyInv, StartBuild, Proceed, seedVars
<1>2. CASE inputs.present \/ ~QualifiedSeed(signed)
  <2>1. bpc'[b] = "ended"
    BY <1>1, <1>2
  <2> QED
    BY <2>1, BuilderEnds
<1>3. CASE ~(inputs.present \/ ~QualifiedSeed(signed))
  <2>1. bpc'[b] = "rows" /\ QualifiedSeed(signed)
    BY <1>1, <1>3
  <2>2. QualifiedSeed(signed)'
    BY <1>1, <2>1 DEF QualifiedSeed
  <2>3. index'[b] = <<>> /\ IsSequence(index'[b]) /\ Len(index'[b]) = 0
    <3>1. index'[b] = <<>> /\ Len(index'[b]) = 0
      BY <1>1
    <3>2. \A S : <<>> \in Seq(S)
      OBVIOUS
    <3> QED
      BY <3>1, <3>2 DEF IsSequence
  <2>4. row'[b] = 0 /\ row'[b] \in 0..Len(Rows) /\ OneEach(temporary[b])'
    BY <1>1, RowTypes DEF OneEach
  <2> QED
    BY <2>1, <2>2, <2>3, <2>4 DEF BuilderInv
<1> QED
  BY <1>2, <1>3

\* one row of the index,
LEMMA BuildRowStep ==
    ASSUME FamilyInv, NEW b \in BuilderRuns, BuildRow(b)
    PROVE  /\ bpc'[b] # "start"
           /\ BuilderInv(b)'
           /\ row'[b] \in 0..Len(Rows)
<1> DEFINE r == Rows[row[b] + 1]
           payload == RowPayload(r)
           files == PutFile(temporary[b], QspiFilename(r), payload)
           blank == [name |-> r.name, filename |-> <<>>]
           full == [name |-> r.name, filename |-> QspiFilename(r),
                    digest |-> Digest(payload)]
           n == row[b] + 1
<1>1. /\ bpc[b] = "rows" /\ row[b] < Len(Rows)
      /\ DOMAIN bpc = BuilderRuns /\ DOMAIN row = BuilderRuns
      /\ DOMAIN temporary = BuilderRuns /\ DOMAIN index = BuilderRuns
      /\ profile \in Specs
      /\ UNCHANGED <<signed, profile, agree>>
  BY DEF FamilyInv, BuildRow, seedVars
<1>2. /\ QualifiedSeed(signed)
      /\ row[b] \in 0..Len(Rows)
      /\ IsSequence(index[b])
      /\ Len(index[b]) = row[b]
      /\ OneEach(temporary[b])
      /\ \A i \in 1..row[b] : Kept(i, index[b][i], temporary[b])
  BY <1>1 DEF FamilyInv, BuilderInv, Building
<1>3. /\ QualifiedSeed(signed)'
      /\ \A i, e, f : Kept(i, e, f)' <=> Kept(i, e, f)
      /\ \A f : OneEach(f)' <=> OneEach(f)
  BY <1>1, <1>2 DEF QualifiedSeed, Kept, RowOf, OneEach
<1>4. /\ Len(Rows) = 6 /\ n \in 1..6 /\ n - 1 = row[b] /\ 1..n = (1..row[b]) \cup {n}
  BY <1>1, <1>2, RowTypes
<1>5. \/ /\ r.filename = <<>>
         /\ index' = [index EXCEPT ![b] = Append(@, blank)]
         /\ row' = [row EXCEPT ![b] = @ + 1]
         /\ UNCHANGED <<bpc, temporary>>
      \/ /\ r.filename # <<>>
         /\ AbortBuild(b) /\ UNCHANGED <<index, row>>
      \/ /\ r.filename # <<>> /\ files # {}
         /\ temporary' = [temporary EXCEPT ![b] = files]
         /\ index' = [index EXCEPT ![b] = Append(@, full)]
         /\ row' = [row EXCEPT ![b] = @ + 1]
         /\ UNCHANGED bpc
  BY DEF BuildRow
<1> HIDE DEF files, payload
<1>6. CASE r.filename # <<>> /\ AbortBuild(b) /\ UNCHANGED <<index, row>>
  <2>1. bpc'[b] = "ended"
    BY <1>1, <1>6 DEF AbortBuild, Proceed
  <2> QED
    BY <1>2, <1>6, <2>1, BuilderEnds
<1>7. CASE /\ r.filename = <<>>
           /\ index' = [index EXCEPT ![b] = Append(@, blank)]
           /\ row' = [row EXCEPT ![b] = @ + 1]
           /\ UNCHANGED <<bpc, temporary>>
  <2>1. index'[b] = Append(index[b], blank) /\ row'[b] = n
    BY <1>1, <1>7
  <2>2. /\ IsSequence(index'[b])
        /\ Len(index'[b]) = n
        /\ \A i \in 1..row[b] : index'[b][i] = index[b][i]
    BY <1>2, <2>1, AppendedRow
  <2>3. ASSUME NEW i \in 1..n PROVE Kept(i, index'[b][i], temporary'[b])
    <3>1. CASE i = n
      BY <1>7, <3>1 DEF Kept
    <3>2. CASE i \in 1..row[b]
      BY <1>2, <1>7, <2>2, <3>2
    <3> QED
      BY <1>4, <3>1, <3>2
  <2>4. bpc'[b] = "rows" /\ OneEach(temporary'[b])
    BY <1>1, <1>2, <1>7
  <2>5. BuilderInv(b)'
    BY <1>3, <1>4, <2>1, <2>2, <2>3, <2>4 DEF BuilderInv
  <2> QED
    BY <1>4, <2>1, <2>4, <2>5
<1>8. CASE /\ r.filename # <<>> /\ files # {}
           /\ temporary' = [temporary EXCEPT ![b] = files]
           /\ index' = [index EXCEPT ![b] = Append(@, full)]
           /\ row' = [row EXCEPT ![b] = @ + 1]
           /\ UNCHANGED bpc
  <2> DEFINE added == [name |-> QspiFilename(r), payload |-> payload]
  <2>1. index'[b] = Append(index[b], full) /\ row'[b] = n /\ temporary'[b] = files
    BY <1>1, <1>8
  <2>2. /\ IsSequence(index'[b])
        /\ Len(index'[b]) = n
        /\ \A i \in 1..row[b] : index'[b][i] = index[b][i]
        /\ index'[b][n] = full
    BY <1>2, <2>1, AppendedRow
  <2>3. OneEach(files) /\ temporary[b] \subseteq files /\ added \in files
    BY <1>2, <1>8, FilePut DEF files
  <2>4. RowOf(n, payload) /\ QspiFilename(r) # <<"mb1-recovery", Shared>>
    BY <1>1, <1>2, <1>4, <1>8, RowPayloads, RowTypes DEF payload
  <2>5. ASSUME NEW i \in 1..n PROVE Kept(i, index'[b][i], temporary'[b])
    <3>1. CASE i = n
      <4>1. /\ added.name = full.filename /\ full.digest = Digest(added.payload)
            /\ added.name = QspiFilename(r) /\ added.payload = payload
        OBVIOUS
      <4> HIDE DEF added, full
      <4> QED
        BY <2>1, <2>2, <2>3, <2>4, <3>1, <4>1 DEF Kept
    <3>2. CASE i \in 1..row[b]
      BY <1>2, <2>1, <2>2, <2>3, <3>2, KeptStays
    <3> QED
      BY <1>4, <3>1, <3>2
  <2>6. bpc'[b] = "rows"
    BY <1>1, <1>8
  <2>7. BuilderInv(b)'
    BY <1>3, <1>4, <2>1, <2>2, <2>3, <2>5, <2>6 DEF BuilderInv
  <2> QED
    BY <1>4, <2>1, <2>6, <2>7
<1> QED
  BY <1>5, <1>6, <1>7, <1>8

\* The steps after the loop.
LEMMA PutCommonStep ==
    ASSUME FamilyInv, NEW b \in BuilderRuns, PutCommon(b)
    PROVE  bpc'[b] # "start" /\ BuilderInv(b)'
<1> DEFINE eks == PutFile(temporary[b], <<"eks", Shared>>, SeedPayload("eks"))
           files == IF eks = {} THEN {}
                    ELSE PutFile(eks, <<"psc-fw", Shared>>, SeedPayload("psc-fw"))
<1>1. /\ bpc[b] = "rows" /\ row[b] = Len(Rows)
      /\ DOMAIN bpc = BuilderRuns /\ DOMAIN temporary = BuilderRuns
      /\ UNCHANGED <<signed, profile, row, index>>
  BY DEF FamilyInv, PutCommon, seedVars
<1>2. /\ QualifiedSeed(signed)
      /\ row[b] \in 0..Len(Rows)
      /\ IsSequence(index[b])
      /\ Len(index[b]) = row[b]
      /\ OneEach(temporary[b])
      /\ \A i \in 1..row[b] : Kept(i, index[b][i], temporary[b])
  BY <1>1 DEF FamilyInv, BuilderInv, Building
<1>3. /\ QualifiedSeed(signed)'
      /\ \A i, e, f : Kept(i, e, f)' <=> Kept(i, e, f)
      /\ \A f : OneEach(f)' <=> OneEach(f)
  BY <1>1, <1>2 DEF QualifiedSeed, Kept, RowOf, OneEach
<1>4. \/ AbortBuild(b)
      \/ files # {} /\ temporary' = [temporary EXCEPT ![b] = files]
           /\ bpc' = [bpc EXCEPT ![b] = "components"]
  BY DEF PutCommon, Proceed
<1>5. CASE AbortBuild(b)
  <2>1. bpc'[b] = "ended"
    BY <1>1, <1>5 DEF AbortBuild, Proceed
  <2> QED
    BY <2>1, BuilderEnds
<1>6. CASE files # {} /\ temporary' = [temporary EXCEPT ![b] = files]
             /\ bpc' = [bpc EXCEPT ![b] = "components"]
  <2>1. temporary'[b] = files /\ bpc'[b] = "components"
    BY <1>1, <1>6
  <2>2. eks # {} /\ files = PutFile(eks, <<"psc-fw", Shared>>, SeedPayload("psc-fw"))
    BY <1>6
  <2> HIDE DEF eks, files
  <2>3. OneEach(eks) /\ temporary[b] \subseteq eks
    BY <1>2, <2>2, FilePut DEF eks
  <2>4. OneEach(files) /\ eks \subseteq files
    BY <1>6, <2>2, <2>3, FilePut
  <2>5. \A i \in 1..row[b] : Kept(i, index[b][i], files)
    BY <1>2, <2>3, <2>4, KeptStays
  <2> QED
    BY <1>1, <1>2, <1>3, <2>1, <2>4, <2>5 DEF BuilderInv
<1> QED
  BY <1>4, <1>5, <1>6

\* the files of the RAM boot,
LEMMA ComponentsStep ==
    ASSUME FamilyInv, NEW b \in BuilderRuns, BuildRcmComponents(b)
    PROVE  bpc'[b] # "start" /\ BuilderInv(b)'
<1> DEFINE table == <<"mb1-recovery", Shared>>
           selected == SelectEntry(Entries, "MB1_BCT", profile).payload.payload
           updated == [selected EXCEPT !.updated = TRUE]
           rebuilt == Component("MBCT", updated)
           files == PutOver(temporary[b], table, rebuilt)
           added == [name |-> table, payload |-> rebuilt]
<1>1. /\ bpc[b] = "components"
      /\ DOMAIN bpc = BuilderRuns /\ DOMAIN temporary = BuilderRuns
      /\ profile \in Specs
      /\ UNCHANGED <<signed, profile, row, index>>
  BY DEF FamilyInv, BuildRcmComponents, seedVars
<1>2. /\ QualifiedSeed(signed)
      /\ row[b] \in 0..Len(Rows) /\ row[b] = Len(Rows)
      /\ IsSequence(index[b])
      /\ Len(index[b]) = row[b]
      /\ OneEach(temporary[b])
      /\ \A i \in 1..row[b] : Kept(i, index[b][i], temporary[b])
  BY <1>1 DEF FamilyInv, BuilderInv, Building
<1>3. /\ QualifiedSeed(signed)'
      /\ \A i, e, f : Kept(i, e, f)' <=> Kept(i, e, f)
      /\ \A f : OneEach(f)' <=> OneEach(f)
      /\ \A f : RcmTable(f)' <=> RcmTable(f)
  BY <1>1, <1>2 DEF QualifiedSeed, Kept, RowOf, OneEach, RcmTable
<1>4. \/ AbortBuild(b)
      \/ temporary' = [temporary EXCEPT ![b] = files]
           /\ bpc' = [bpc EXCEPT ![b] = "publish"]
  BY DEF BuildRcmComponents, Proceed
<1>5. CASE AbortBuild(b)
  <2>1. bpc'[b] = "ended"
    BY <1>1, <1>5 DEF AbortBuild, Proceed
  <2> QED
    BY <2>1, BuilderEnds
<1>6. CASE temporary' = [temporary EXCEPT ![b] = files]
             /\ bpc' = [bpc EXCEPT ![b] = "publish"]
  <2>1. temporary'[b] = files /\ bpc'[b] = "publish"
    BY <1>1, <1>6
  <2>2. selected = Raw("MB1_BCT", profile)
    BY <1>1, Selected, EntryFields, ComponentGenuine
  <2>3. rebuilt.payload = [Raw("MB1_BCT", profile) EXCEPT !.updated = TRUE]
    BY <2>2, ComponentGenuine
  <2> HIDE DEF rebuilt, table
  <2>4. /\ files = (temporary[b] \ {f \in temporary[b] : f.name = table}) \cup {added}
        /\ added.name = table /\ added.payload = rebuilt
    BY DEF PutOver, Named
  <2> HIDE DEF files
  <2>5. OneEach(files)
    <3>1. added = [name |-> added.name, payload |-> added.payload]
      OBVIOUS
    <3> HIDE DEF added
    <3> QED
      BY <1>2, <2>4, <3>1 DEF OneEach
  <2> HIDE DEF added
  <2>6. RcmTable(files)
    BY <2>3, <2>4 DEF RcmTable, table
  <2>7. \A i \in 1..row[b] : Kept(i, index[b][i], files)
    BY <1>2, <2>4 DEF Kept, table
  <2> QED
    BY <1>1, <1>2, <1>3, <2>1, <2>5, <2>6, <2>7 DEF BuilderInv
<1> QED
  BY <1>4, <1>5, <1>6

\* What is published is whole.
LEMMA PublishStep ==
    ASSUME FamilyInv, InputsWhole, NEW b \in BuilderRuns, PublishInputs(b)
    PROVE  bpc'[b] # "start" /\ BuilderInv(b)' /\ InputsWhole'
<1>1. /\ bpc[b] = "publish"
      /\ DOMAIN bpc = BuilderRuns
      /\ UNCHANGED <<signed, profile>>
  BY DEF FamilyInv, PublishInputs, seedVars
<1>2. /\ row[b] = Len(Rows)
      /\ Len(index[b]) = row[b]
      /\ OneEach(temporary[b])
      /\ \A i \in 1..row[b] : Kept(i, index[b][i], temporary[b])
      /\ RcmTable(temporary[b])
  BY <1>1 DEF FamilyInv, BuilderInv, Building
<1>3. bpc'[b] = "ended"
  BY <1>1 DEF PublishInputs, AbortBuild, Proceed
<1>4. CASE inputs.present
  <2>1. inputs' = inputs
    BY <1>4 DEF PublishInputs
  <2>2. InputsWhole'
    BY <1>1, <2>1 DEF InputsWhole, Sums
  <2> QED
    BY <1>3, <2>2, BuilderEnds
<1>5. CASE ~inputs.present
  <2> DEFINE files == temporary[b]
             published == [present |-> TRUE, files |-> files, index |-> index[b],
                           sums |-> Sums(files)]
  <2>1. inputs' = published
    BY <1>5 DEF PublishInputs
  <2>2. /\ published.files = files /\ published.index = index[b]
        /\ published.sums = Sums(files)
    OBVIOUS
  <2>3. DOMAIN Rows = 1..row[b] /\ Len(index[b]) = Len(Rows)
    BY <1>2, RowTypes
  <2> HIDE DEF files, published
  <2>4. ASSUME NEW i \in DOMAIN Rows, Rows[i].filename # <<>>
        PROVE  \E f \in files :
                 /\ Named(files, index[b][i].filename) = {f}
                 /\ index[b][i].digest = Digest(f.payload)
                 /\ RowOf(i, f.payload)
    <3>1. Kept(i, index[b][i], files) /\ OneEach(files)
      BY <1>2, <2>3 DEF files
    <3>2. PICK f \in files : /\ f.name = index[b][i].filename
                             /\ index[b][i].digest = Digest(f.payload)
                             /\ RowOf(i, f.payload)
      BY <2>4, <3>1 DEF Kept
    <3>3. Named(files, index[b][i].filename) = {f}
      BY <3>1, <3>2 DEF Named, OneEach
    <3> QED
      BY <3>2, <3>3
  <2>5. /\ Named(files, <<"mb1-recovery", Shared>>) # {}
        /\ \A f \in Named(files, <<"mb1-recovery", Shared>>) :
             f.payload.payload = [Raw("MB1_BCT", profile) EXCEPT !.updated = TRUE]
    BY <1>2 DEF RcmTable, Named, files
  <2>6. \A i \in DOMAIN Rows :
          LET r == inputs'.index[i]
          IN  Rows[i].filename # <<>> =>
                \E f \in inputs'.files :
                  /\ Named(inputs'.files, r.filename) = {f}
                  /\ r.digest = Digest(f.payload)
                  /\ f.payload.payload.name = Rows[i].name
                  /\ f.payload.payload.tnspec \in {profile', Shared}
                  /\ Rows[i].name = "mb2" =>
                       f.payload.payload.cvb = 0 /\ SinglePayload(f.payload, "MB2B")
    BY <1>1, <2>1, <2>2, <2>4 DEF RowOf
  <2>7. InputsWhole'
    BY <1>1, <2>1, <2>2, <2>3, <2>5, <2>6 DEF InputsWhole
  <2> QED
    BY <1>3, <2>7, BuilderEnds
<1> QED
  BY <1>4, <1>5

\* and all of them.
LEMMA BuildStep ==
    ASSUME FamilyInv, InputsWhole, NEW b \in BuilderRuns, Build(b)
    PROVE  FamilyInv' /\ InputsWhole'
<1>1. /\ UNCHANGED <<seedVars, profile, agree>>
      /\ DOMAIN bpc' = BuilderRuns /\ DOMAIN row' = BuilderRuns
      /\ DOMAIN temporary' = BuilderRuns /\ DOMAIN index' = BuilderRuns
      /\ \A o \in BuilderRuns : o # b =>
           /\ bpc'[o] = bpc[o] /\ row'[o] = row[o]
           /\ temporary'[o] = temporary[o] /\ index'[o] = index[o]
  BY OthersStay
<1>2. ASSUME inputs' = inputs PROVE InputsWhole'
  BY <1>1, <1>2 DEF InputsWhole, Sums
<1>3. DOMAIN bpc = BuilderRuns /\ row[b] \in 0..Len(Rows) /\ profile \in Specs
  BY DEF FamilyInv
<1>4. /\ bpc'[b] # "start" /\ BuilderInv(b)'
      /\ row'[b] \in 0..Len(Rows)
      /\ InputsWhole'
  <2>1. CASE StartBuild(b)
    <3>1. row' = row /\ inputs' = inputs
      BY <2>1 DEF StartBuild
    <3> QED
      BY <1>2, <1>3, <2>1, <3>1, StartBuildStep
  <2>2. CASE BuildRow(b)
    <3>1. inputs' = inputs
      BY <2>2 DEF BuildRow
    <3> QED
      BY <1>2, <2>2, <3>1, BuildRowStep
  <2>3. CASE PutCommon(b)
    <3>1. row' = row /\ inputs' = inputs
      BY <2>3 DEF PutCommon
    <3> QED
      BY <1>2, <1>3, <2>3, <3>1, PutCommonStep
  <2>4. CASE BuildRcmComponents(b)
    <3>1. row' = row /\ inputs' = inputs
      BY <2>4 DEF BuildRcmComponents
    <3> QED
      BY <1>2, <1>3, <2>4, <3>1, ComponentsStep
  <2>5. CASE PublishInputs(b)
    <3>1. row' = row
      BY <2>5 DEF PublishInputs
    <3> QED
      BY <1>3, <2>5, <3>1, PublishStep
  <2>6. CASE FailBuild(b) \/ DieBuilding(b)
    <3>1. row' = row /\ inputs' = inputs /\ bpc'[b] = "ended"
      BY <1>3, <2>6 DEF FailBuild, DieBuilding, AbortBuild, Proceed
    <3> QED
      BY <1>2, <1>3, <3>1, BuilderEnds
  <2> QED
    BY <2>1, <2>2, <2>3, <2>4, <2>5, <2>6 DEF Build
<1>5. ASSUME NEW o \in BuilderRuns
      PROVE  /\ row'[o] \in 0..Len(Rows)
             /\ bpc'[o] = "start" => row'[o] = 0 /\ index'[o] = <<>> /\ temporary'[o] = {}
             /\ BuilderInv(o)'
  <2>1. CASE o = b
    BY <1>4, <2>1
  <2>2. CASE o # b
    <3>1. /\ row[o] \in 0..Len(Rows) /\ BuilderInv(o)
          /\ bpc[o] = "start" => row[o] = 0 /\ index[o] = <<>> /\ temporary[o] = {}
      BY DEF FamilyInv
    <3>2. signed' = signed
      BY <1>1 DEF seedVars
    <3>3. BuilderInv(o)'
      BY <1>1, <2>2, <3>1, <3>2, BuilderStays
    <3> QED
      BY <1>1, <2>2, <3>1, <3>3
  <2> QED
    BY <2>1, <2>2
<1>6. FamilyInv'
  BY <1>1, <1>3, <1>5 DEF FamilyInv
<1> QED
  BY <1>4, <1>6

\* Every step keeps the invariant and the property.
LEMMA FamilyInvNext ==
    FamilyInv /\ InputsWhole /\ [FamilyNext]_familyVars => FamilyInv' /\ InputsWhole'
<1> SUFFICES ASSUME FamilyInv, InputsWhole, [FamilyNext]_familyVars
             PROVE  FamilyInv' /\ InputsWhole'
  OBVIOUS
<1>1. ASSUME UNCHANGED buildVars, QualifiedSeed(signed) => signed' = signed
      PROVE  FamilyInv' /\ InputsWhole'
  <2>1. InputsWhole'
    BY <1>1 DEF buildVars, InputsWhole, Sums
  <2>2. ASSUME NEW b \in BuilderRuns PROVE BuilderInv(b)'
    <3>1. BuilderInv(b)
      BY DEF FamilyInv
    <3>2. /\ bpc'[b] = bpc[b] /\ row'[b] = row[b] /\ temporary'[b] = temporary[b]
          /\ index'[b] = index[b] /\ profile' = profile
      BY <1>1 DEF buildVars
    <3> QED
      BY <1>1, <3>1, <3>2, BuilderStays
  <2>3. FamilyInv'
    BY <1>1, <2>2 DEF FamilyInv, buildVars
  <2> QED
    BY <2>1, <2>3
<1>2. CASE \E g \in Generators : Generator(g)
  BY <1>1, <1>2, GeneratorStep
<1>3. CASE \E b \in BuilderRuns : Build(b)
  BY <1>3, BuildStep
<1>4. CASE CleanProfileDirectory
  <2>1. /\ bpc' = bpc /\ row' = row /\ index' = index /\ profile' = profile
        /\ temporary' = [b \in BuilderRuns |-> {}]
        /\ ~inputs'.present
        /\ \A b \in BuilderRuns : bpc[b] \in {"start", "ended"}
    BY <1>4 DEF CleanProfileDirectory, NoInputs
  <2>2. \A b \in BuilderRuns : BuilderInv(b)'
    BY <2>1 DEF BuilderInv, Building
  <2>3. FamilyInv'
    BY <2>1, <2>2 DEF FamilyInv
  <2> QED
    BY <2>1, <2>3 DEF InputsWhole
<1>5. CASE UNCHANGED familyVars
  BY <1>1, <1>5 DEF familyVars, seedVars
<1> QED
  BY <1>2, <1>3, <1>4, <1>5 DEF FamilyNext

\* And they hold initially.
LEMMA FamilyInvInit == FamilyInit => FamilyInv /\ InputsWhole
<1> SUFFICES ASSUME FamilyInit PROVE FamilyInv /\ InputsWhole
  OBVIOUS
<1>1. ~inputs.present
  BY DEF FamilyInit, NoInputs
<1>2. \A b \in BuilderRuns :
        bpc[b] = "start" /\ row[b] = 0 /\ index[b] = <<>> /\ temporary[b] = {}
  BY DEF FamilyInit
<1>3. \A b \in BuilderRuns : BuilderInv(b)
  BY <1>2 DEF BuilderInv, Building
<1>4. FamilyInv
  BY <1>2, <1>3, RowTypes DEF FamilyInit, FamilyInv
<1> QED
  BY <1>1, <1>4 DEF InputsWhole

\* An output directory of build-r39-family-inputs.py that exists has a file for
\* every row that names one, with the digest the row gives and the payload of
\* that partition for this module or for all, the updated recovery table of this
\* module, and a true SHA256SUMS: for every set of modules and any number of
\* generators and builders at once that fail or die anywhere.
THEOREM PublishedInputsWhole == FamilySpec => []InputsWhole
<1>1. FamilyInit => FamilyInv /\ InputsWhole
  BY FamilyInvInit
<1>2. FamilyInv /\ InputsWhole /\ [FamilyNext]_familyVars => (FamilyInv /\ InputsWhole)'
  BY FamilyInvNext
<1> QED
  BY <1>1, <1>2, PTL DEF FamilySpec

-----------------------------------------------------------------------------
(* The inductive invariant of Qspi *)

\* What load_catalog settles for good.
Admitted ==
    /\ \A i, j \in DOMAIN partitions : i # j =>
         Before(partitions[i], partitions[j]) \/ Before(partitions[j], partitions[i])
    /\ \A i \in DOMAIN partitions :
         /\ partitions[i].size > 0
         /\ partitions[i].offset + partitions[i].size <= StorageSize
         /\ Populated(partitions[i]) => Len(partitions[i].image) <= partitions[i].size

\* The units a partition's payload, or one of its copies, takes up.
Covers(p, c) == \E o \in WriteOffsets(p) : c \in o..(o + Len(p.image) - 1)

\* The image so far.
Laid ==
    /\ target \in Seq({target[c] : c \in DOMAIN target})
    /\ Len(target) >= StorageSize
    /\ \A i \in 1..(next - 1) : Populated(partitions[i]) => Writable(partitions[i])
    /\ exchanges = 0 =>
         /\ Len(target) = StorageSize
         /\ \A c \in 0..(StorageSize - 1) :
              \/ target[c + 1] = Erased
              \/ \E i \in 1..(next - 1) :
                   Populated(partitions[i]) /\ Covers(partitions[i], c)

\* What ChecksumMeansImage says of the image.
Whole ==
    /\ exchanges = 0 => Len(target) = StorageSize
    /\ \A c \in 0..(StorageSize - 1) :
         LET expected == IF Holding(c) = {} THEN Erased
                         ELSE Stored(partitions[CHOOSE i \in Holding(c) : TRUE], c)
         IN  target[c + 1] = expected \/ (expected = Erased /\ exchanges > 0)

QspiTypes ==
    /\ partitions \in Catalogs
    /\ file \in [Payloads -> Payloads]
    /\ exchanges \in Nat
    /\ exchanges = 0 => \A p \in Payloads : file[p] = p
    /\ next \in 1..(Len(partitions) + 1)

QspiInv ==
    /\ at \in {"loaded", "writing", "summing"} => Admitted
    /\ at = "loaded" => next = 1
    /\ at \in {"loaded", "writing"} => checksum = NoFile
    /\ at = "writing" => Laid
    /\ at = "summing" => checksum \in {NoFile, Part} /\ Whole
    /\ checksum \notin {NoFile, Part} => checksum = target /\ Whole

-----------------------------------------------------------------------------
(* Qspi: partitions, and where their payloads go *)

\* A payload is a sequence, none of whose units is an erased one.
LEMMA PayloadTypes ==
    ASSUME NEW p \in Payloads
    PROVE  /\ Len(p) \in Nat
           /\ DOMAIN p = 1..Len(p)
           /\ p \in Seq({p[i] : i \in DOMAIN p})
<1>1. p \in Seq({p[i] : i \in DOMAIN p})
  BY QspiAssumption
<1> QED
  BY <1>1

\* The fields of a partition.
LEMMA PartitionTypes ==
    ASSUME QspiTypes
    PROVE  /\ Len(partitions) \in Nat
           /\ DOMAIN partitions = 1..Len(partitions)
           /\ \A i \in DOMAIN partitions :
                /\ partitions[i].offset \in Nat
                /\ partitions[i].size \in Nat
                /\ Populated(partitions[i]) =>
                     partitions[i].image \in Payloads /\ Len(partitions[i].image) \in Nat
<1> DEFINE R == [name: STRING, offset: Nat, size: Nat, image: Payloads \cup {NoImage}]
<1>1. partitions \in Seq(R)
  BY QspiAssumption DEF QspiTypes
<1> HIDE DEF R
<1>2. Len(partitions) \in Nat /\ DOMAIN partitions = 1..Len(partitions)
  BY <1>1
<1>3. ASSUME NEW i \in DOMAIN partitions PROVE partitions[i] \in R
  BY <1>1, <1>2
<1> USE DEF R
<1>4. ASSUME NEW i \in DOMAIN partitions, Populated(partitions[i])
      PROVE  partitions[i].image \in Payloads /\ Len(partitions[i].image) \in Nat
  BY <1>3, <1>4, PayloadTypes DEF Populated
<1>5. ASSUME NEW i \in DOMAIN partitions
      PROVE  partitions[i].offset \in Nat /\ partitions[i].size \in Nat
  BY <1>3
<1> QED
  BY <1>2, <1>4, <1>5

\* A partition that load_catalog and write_offsets accept.
Placed(p) ==
    /\ p.offset \in Nat
    /\ p.size \in Nat \ {0}
    /\ Len(p.image) \in Nat
    /\ Len(p.image) <= p.size
    /\ Writable(p)

\* Where a unit is looked up in its partition.
Place(p, c) == IF p.name = "BCT" THEN c % EraseSize ELSE c - p.offset

\* Every copy is inside the partition.
LEMMA CopyInside ==
    ASSUME NEW p, Placed(p), NEW o \in WriteOffsets(p)
    PROVE  o \in Nat /\ p.offset <= o /\ o + Len(p.image) <= p.offset + p.size
<1>1. EraseSize \in Nat /\ EraseSize > 0
  BY QspiAssumption
<1>2. CASE p.name = "BCT"
  <2>1. /\ p.offset = 0 /\ Len(p.image) <= EraseSize /\ p.size % EraseSize = 0
        /\ p.offset \in Nat /\ p.size \in Nat /\ Len(p.image) \in Nat
    BY <1>2 DEF Placed, Writable
  <2>2. o \in 0..(p.size - 1) /\ (o - 0) % EraseSize = 0
    BY <1>2, <2>1 DEF WriteOffsets
  <2>3. o \in Nat /\ o < p.size /\ o % EraseSize = 0
    BY <2>1, <2>2
  <2>4. o + EraseSize <= p.size
    BY <1>1, <2>1, <2>3, BlockFits
  <2>5. /\ p.offset = 0 /\ Len(p.image) <= EraseSize /\ o \in Nat
        /\ p.size \in Nat /\ Len(p.image) \in Nat
    BY <2>1, <2>3
  <2> QED
    BY <1>1, <2>4, <2>5
<1>3. CASE p.name # "BCT"
  BY <1>3 DEF WriteOffsets, Placed
<1> QED
  BY <1>2, <1>3

\* What a copy takes up is looked up where it was put.
LEMMA CopyFound ==
    ASSUME NEW p, Placed(p), NEW o \in WriteOffsets(p),
           NEW c \in o..(o + Len(p.image) - 1)
    PROVE  Place(p, c) = c - o /\ Place(p, c) < Len(p.image)
<1>1. EraseSize \in Nat /\ EraseSize > 0 /\ Len(p.image) \in Nat
  BY QspiAssumption DEF Placed
<1>2. o \in Nat
  BY CopyInside
<1>3. CASE p.name = "BCT"
  <2>1. p.offset = 0 /\ Len(p.image) <= EraseSize
    BY <1>3 DEF Placed, Writable
  <2>2. o \in 0..(p.size - 1) /\ (o - 0) % EraseSize = 0
    BY <1>3, <2>1 DEF WriteOffsets, Placed
  <2>3. o % EraseSize = 0
    BY <1>2, <2>2
  <2>4. c - o \in 0..(EraseSize - 1) /\ c - o < Len(p.image)
    BY <1>1, <1>2, <2>1
  <2>5. (o + (c - o)) % EraseSize = c - o
    BY <1>1, <1>2, <2>3, <2>4, FromBlock
  <2>6. o + (c - o) = c
    BY <1>1, <1>2
  <2> QED
    BY <1>3, <2>4, <2>5, <2>6 DEF Place
<1>4. CASE p.name # "BCT"
  BY <1>1, <1>2, <1>4 DEF WriteOffsets, Place, Placed
<1> QED
  BY <1>3, <1>4

\* What is looked up in a payload is in one of its copies.
LEMMA PlaceCopied ==
    ASSUME NEW p, Placed(p), NEW c \in p.offset..(p.offset + p.size - 1),
           Place(p, c) < Len(p.image)
    PROVE  \E o \in WriteOffsets(p) : /\ c \in o..(o + Len(p.image) - 1)
                                      /\ Place(p, c) = c - o
<1>1. /\ EraseSize \in Nat /\ EraseSize > 0 /\ Len(p.image) \in Nat
      /\ p.offset \in Nat /\ p.size \in Nat /\ c \in Nat
  BY QspiAssumption DEF Placed
<1>2. CASE p.name = "BCT"
  <2> DEFINE t == c % EraseSize
             o == c - t
  <2>1. t \in 0..(EraseSize - 1) /\ o \in Nat /\ o % EraseSize = 0
    BY <1>1, InItsBlock
  <2>2. t < Len(p.image)
    BY <1>2 DEF Place
  <2>3. p.offset = 0
    BY <1>2 DEF Placed, Writable
  <2> HIDE DEF t
  <2>4. c \in o..(o + Len(p.image) - 1) /\ c - o = t /\ o <= c
    BY <1>1, <2>1, <2>2
  <2> HIDE DEF o
  <2>5. o - p.offset = o /\ o \in p.offset..(p.offset + p.size - 1)
    BY <1>1, <2>1, <2>3, <2>4
  <2>6. o \in WriteOffsets(p)
    BY <1>2, <2>1, <2>5 DEF WriteOffsets
  <2>7. Place(p, c) = t
    BY <1>2 DEF Place, t
  <2> QED
    BY <2>4, <2>6, <2>7
<1>3. CASE p.name # "BCT"
  BY <1>1, <1>3 DEF WriteOffsets, Place
<1> QED
  BY <1>2, <1>3

\* Writing makes an image longer or leaves its length, and changes nothing
\* outside the copies.
Overwrites(w, old, offsets, contents) ==
    /\ w \in Seq({w[c] : c \in DOMAIN w})
    /\ Len(w) \in Nat
    /\ Len(w) >= Len(old)
    /\ (\A o \in offsets : o + Len(contents) <= Len(old)) => Len(w) = Len(old)
    /\ \A c \in 1..Len(old) :
         \/ w[c] = old[c]
         \/ \E o \in offsets : c - 1 \in o..(o + Len(contents) - 1)

\* Writing a payload at some offsets is such an overwriting.
LEMMA WrittenImage ==
    ASSUME NEW old, old \in Seq({old[c] : c \in DOMAIN old}),
           NEW contents \in Payloads, NEW offsets \in SUBSET Nat,
           NEW bound \in Nat, \A o \in offsets : o <= bound
    PROVE  Overwrites(Written(old, offsets, contents), old, offsets, contents)
<1> DEFINE w == Written(old, offsets, contents)
           Ends == {Len(old)} \cup {o + Len(contents) : o \in offsets}
           Under(c) == {o \in offsets : c - o \in DOMAIN contents}
           Value(c) == IF Under(c) = {} THEN old[c] ELSE contents[c - Max(Under(c))]
           End == Max(Ends)
<1>1. /\ Len(contents) \in Nat /\ DOMAIN contents = 1..Len(contents)
      /\ Len(old) \in Nat
  BY PayloadTypes
<1>2. Ends \in SUBSET Nat /\ Len(old) \in Ends
  BY <1>1
<1>3. \A y \in Ends : y <= bound + Len(contents) + Len(old)
  BY <1>1
<1>4. bound + Len(contents) + Len(old) \in Nat
  BY <1>1
<1>5. w = [c \in 1..End |-> Value(c)]
  BY DEF Written
<1> HIDE DEF Ends, Value, End, w
<1>6. Max(Ends) \in Ends /\ \A y \in Ends : Max(Ends) >= y
  BY <1>2, <1>3, <1>4, Greatest
<1>7. End \in Nat /\ End >= Len(old)
  BY <1>2, <1>6 DEF End
<1>8. DOMAIN w = 1..End /\ w \in [1..End -> {w[c] : c \in 1..End}]
  BY <1>5
<1>9. w \in Seq({w[c] : c \in DOMAIN w}) /\ Len(w) = End
  BY ONLY <1>7, <1>8
<1>10. ASSUME \A o \in offsets : o + Len(contents) <= Len(old)
       PROVE  End = Len(old)
  <2>1. \A y \in Ends : y <= Len(old)
    BY <1>1, <1>10 DEF Ends
  <2>2. End <= Len(old)
    BY <1>6, <2>1 DEF End
  <2> QED
    BY <1>1, <1>7, <2>2
<1>11. ASSUME NEW c \in 1..Len(old)
       PROVE  \/ w[c] = old[c]
              \/ \E o \in offsets : c - 1 \in o..(o + Len(contents) - 1)
  <2>1. c \in 1..End /\ w[c] = Value(c)
    BY <1>1, <1>5, <1>7
  <2>2. CASE Under(c) = {}
    BY <2>1, <2>2 DEF Value
  <2>3. CASE Under(c) # {}
    <3>1. PICK o \in offsets : c - o \in 1..Len(contents)
      BY <1>1, <2>3
    <3>2. c - 1 \in o..(o + Len(contents) - 1)
      BY <1>1, <3>1
    <3> QED
      BY <3>2
  <2> QED
    BY <2>2, <2>3
<1>12. Overwrites(w, old, offsets, contents)
  BY <1>7, <1>9, <1>10, <1>11 DEF Overwrites
<1> QED
  BY <1>12 DEF w

\* The partition a unit is in is the only one.
LEMMA OnlyOne ==
    ASSUME QspiTypes, Admitted, NEW c \in Nat, NEW i \in Holding(c), NEW j \in Holding(c)
    PROVE  i = j
<1> SUFFICES ASSUME i # j PROVE FALSE
  OBVIOUS
<1>1. /\ i \in DOMAIN partitions /\ j \in DOMAIN partitions
      /\ c \in partitions[i].offset..(partitions[i].offset + partitions[i].size - 1)
      /\ c \in partitions[j].offset..(partitions[j].offset + partitions[j].size - 1)
  BY DEF Holding
<1>2. \/ partitions[i].offset + partitions[i].size <= partitions[j].offset
      \/ partitions[j].offset + partitions[j].size <= partitions[i].offset
  BY <1>1 DEF Admitted, Before
<1>3. /\ partitions[i].offset \in Nat /\ partitions[i].size \in Nat
      /\ partitions[j].offset \in Nat /\ partitions[j].size \in Nat
  BY <1>1, PartitionTypes
<1> QED
  BY <1>1, <1>2, <1>3

\* A partition that was written is placed.
LEMMA WasPlaced ==
    ASSUME QspiTypes, Admitted, NEW i \in DOMAIN partitions,
           Populated(partitions[i]), Writable(partitions[i])
    PROVE  /\ Placed(partitions[i])
           /\ partitions[i].image \in Payloads
           /\ partitions[i].offset + partitions[i].size <= StorageSize
<1>1. /\ partitions[i].offset \in Nat /\ partitions[i].size \in Nat
      /\ partitions[i].image \in Payloads /\ Len(partitions[i].image) \in Nat
  BY PartitionTypes
<1>2. /\ partitions[i].size > 0 /\ Len(partitions[i].image) <= partitions[i].size
      /\ partitions[i].offset + partitions[i].size <= StorageSize
  BY DEF Admitted
<1> QED
  BY <1>1, <1>2 DEF Placed

-----------------------------------------------------------------------------
(* The steps of Qspi that are not plain *)

\* The steps of the builder, one by one: the catalog is loaded and checked,
LEMMA LoadStep == QspiTypes /\ QspiInv /\ Load => QspiInv'
<1> SUFFICES ASSUME QspiTypes, QspiInv, Load PROVE QspiInv'
  OBVIOUS
<1>1. UNCHANGED <<partitions, file, target, checksum, exchanges>>
  BY DEF Load
<1>2. (checksum \notin {NoFile, Part} => checksum = target /\ Whole)'
  BY <1>1 DEF QspiInv, Whole, Holding, Stored, Populated
<1>3. ASSUME at' = "loaded" PROVE checksum' = NoFile /\ Admitted' /\ next' = 1
  <2>1. Accepts(partitions) /\ checksum = NoFile /\ next' = 1
    BY <1>3 DEF Load
  <2>2. Admitted
    BY <2>1 DEF Accepts, Admitted, Loaded
  <2> QED
    BY <1>1, <2>1, <2>2 DEF Admitted, Before, Populated
<1>4. at' \in {"loaded", "refused"}
  BY DEF Load
<1> QED
  BY <1>2, <1>3, <1>4 DEF QspiInv

\* the image is erased,
LEMMA CreateStep == QspiTypes /\ QspiInv /\ Create => QspiInv'
<1> SUFFICES ASSUME QspiTypes, QspiInv, Create PROVE QspiInv'
  OBVIOUS
<1>1. /\ at = "loaded" /\ at' = "writing" /\ target' = [c \in 1..StorageSize |-> Erased]
      /\ partitions' = partitions /\ next' = next /\ checksum' = checksum
      /\ exchanges' = exchanges
  BY DEF Create
<1>2. Admitted' /\ checksum' = NoFile /\ next' = 1
  BY <1>1 DEF QspiInv, Admitted, Before, Populated
<1>3. StorageSize \in Nat
  BY QspiAssumption
<1>4. /\ target' \in Seq({target'[c] : c \in DOMAIN target'})
      /\ Len(target') = StorageSize
  <2>1. DOMAIN target' = 1..StorageSize
        /\ target' \in [1..StorageSize -> {target'[c] : c \in 1..StorageSize}]
    BY <1>1
  <2> QED
    BY <1>3, <2>1
<1>5. \A c \in 0..(StorageSize - 1) : target'[c + 1] = Erased
  BY <1>1, <1>3
<1>6. Laid'
  BY <1>2, <1>3, <1>4, <1>5 DEF Laid
<1> QED
  BY <1>1, <1>2, <1>6 DEF QspiInv

\* a partition is written,
LEMMA WriteStep == QspiTypes /\ QspiInv /\ WritePartition => QspiTypes' /\ QspiInv'
<1> SUFFICES ASSUME QspiTypes, QspiInv, WritePartition PROVE QspiTypes' /\ QspiInv'
  OBVIOUS
<1> DEFINE p == partitions[next]
<1>1. /\ at = "writing" /\ at' = at /\ next <= Len(partitions) /\ next' = next + 1
      /\ partitions' = partitions /\ file' = file
      /\ checksum' = checksum /\ exchanges' = exchanges
      /\ Populated(p) => Writable(p)
      /\ target' = IF Populated(p)
                   THEN Written(target, WriteOffsets(p), file[p.image]) ELSE target
  BY DEF WritePartition
<1>2. Admitted /\ Laid /\ checksum = NoFile
  BY <1>1 DEF QspiInv
<1>3. Admitted' /\ checksum' = NoFile
  BY <1>1, <1>2 DEF Admitted, Before, Populated
<1>4. /\ Len(partitions) \in Nat /\ DOMAIN partitions = 1..Len(partitions)
      /\ next \in DOMAIN partitions /\ next \in Nat /\ next - 1 \in Nat
      /\ 1..(next' - 1) = (1..(next - 1)) \cup {next}
  BY <1>1, PartitionTypes DEF QspiTypes
<1>5. QspiTypes'
  BY <1>1, <1>4 DEF QspiTypes
<1>6. \A i \in 1..(next' - 1) : Populated(partitions'[i]) => Writable(partitions'[i])
  BY <1>1, <1>2, <1>4 DEF Laid, Populated, Writable
<1>7. CASE ~Populated(p)
  <2>1. target' = target
    BY <1>1, <1>7
  <2>2. Laid'
    BY <1>1, <1>2, <1>4, <1>6, <2>1 DEF Laid, Covers, WriteOffsets, Populated
  <2> QED
    BY <1>1, <1>3, <1>5, <2>2 DEF QspiInv
<1>8. CASE Populated(p)
  <2> DEFINE offsets == WriteOffsets(p)
             contents == file[p.image]
             bound == p.offset + p.size
  <2>1. /\ Placed(p) /\ p.image \in Payloads
        /\ p.offset + p.size <= StorageSize
    BY <1>1, <1>2, <1>4, <1>8, WasPlaced
  <2>2. /\ bound \in Nat /\ contents \in Payloads /\ Len(p.image) \in Nat
        /\ StorageSize \in Nat
    <3> HIDE DEF p
    <3>1. bound \in Nat /\ Len(p.image) \in Nat
      BY <2>1 DEF Placed
    <3>2. contents \in Payloads
      BY <2>1 DEF QspiTypes
    <3>3. StorageSize \in Nat
      BY QspiAssumption
    <3> QED
      BY <3>1, <3>2, <3>3
  <2>3. \A o \in offsets : o \in Nat /\ o + Len(p.image) <= bound
    BY <2>1, CopyInside
  <2>4. offsets \in SUBSET Nat /\ \A o \in offsets : o <= bound
    BY <2>2, <2>3
  <2>5. target' = Written(target, offsets, contents)
    BY <1>1, <1>8
  <2>6. target \in Seq({target[c] : c \in DOMAIN target}) /\ Len(target) >= StorageSize
    BY <1>2 DEF Laid
  <2> HIDE DEF p, offsets, contents, bound
  <2>7. Overwrites(target', target, offsets, contents)
    BY <2>2, <2>4, <2>5, <2>6, WrittenImage
  <2>8. Len(target) \in Nat
    BY <2>6
  <2>9. ASSUME exchanges' = 0
        PROVE  /\ Len(target') = StorageSize
               /\ \A c \in 0..(StorageSize - 1) :
                    \/ target'[c + 1] = Erased
                    \/ \E i \in 1..(next' - 1) :
                         Populated(partitions'[i]) /\ Covers(partitions'[i], c)
    <3>1. contents = p.image
      BY <1>1, <2>1, <2>9 DEF QspiTypes, contents
    <3>2. Len(target) = StorageSize
      BY <1>1, <1>2, <2>9 DEF Laid
    <3>3. \A o \in offsets : o + Len(contents) <= Len(target)
      BY <2>1, <2>2, <2>3, <3>1, <3>2 DEF bound
    <3>4. Len(target') = StorageSize
      BY <2>7, <3>2, <3>3 DEF Overwrites
    <3>5. ASSUME NEW c \in 0..(StorageSize - 1)
          PROVE  \/ target'[c + 1] = Erased
                 \/ \E i \in 1..(next' - 1) :
                      Populated(partitions'[i]) /\ Covers(partitions'[i], c)
      <4>1. c + 1 \in 1..Len(target) /\ (c + 1) - 1 = c
        BY <2>2, <3>2
      <4>2. \/ target'[c + 1] = target[c + 1]
            \/ \E o \in offsets : (c + 1) - 1 \in o..(o + Len(contents) - 1)
        BY <2>7, <4>1 DEF Overwrites
      <4>3. CASE \E o \in offsets : (c + 1) - 1 \in o..(o + Len(contents) - 1)
        <5>1. Covers(p, c)
          BY <3>1, <4>1, <4>3 DEF Covers, offsets
        <5> QED
          BY <1>1, <1>4, <1>8, <5>1 DEF p
      <4>4. CASE target'[c + 1] = target[c + 1]
        <5>1. \/ target[c + 1] = Erased
              \/ \E i \in 1..(next - 1) :
                   Populated(partitions[i]) /\ Covers(partitions[i], c)
          BY <1>1, <1>2, <2>9 DEF Laid
        <5> QED
          BY <1>1, <1>4, <4>4, <5>1
      <4> QED
        BY <4>2, <4>3, <4>4
    <3> QED
      BY <3>4, <3>5
  <2>10. Laid'
    <3>1. target' \in Seq({target'[c] : c \in DOMAIN target'})
          /\ Len(target') >= StorageSize
      BY <1>6, <2>2, <2>6, <2>7 DEF Overwrites
    <3> QED
      BY <1>6, <2>9, <3>1 DEF Laid
  <2> QED
    BY <1>1, <1>3, <1>5, <2>10 DEF QspiInv
<1> QED
  BY <1>7, <1>8

\* An element of a part of a sequence.
LEMMA PartOf ==
    ASSUME NEW S, NEW s \in Seq(S), NEW o \in Nat, NEW m \in Nat, o + m <= Len(s),
           NEW k \in 1..m
    PROVE  SubSeq(s, o + 1, o + m)[k] = s[o + k]
<1>1. (o + m) - (o + 1) + 1 = m /\ (o + 1) + k - 1 = o + k
  OBVIOUS
<1>2. o + m < Len(s) + 1
  OBVIOUS
<1> QED
  BY <1>1

\* What ReadBack finds in every region, and what Laid says of the rest, is the
\* whole image.
LEMMA ReadBackStep == QspiTypes /\ QspiInv /\ ReadBack => QspiInv'
<1> SUFFICES ASSUME QspiTypes, QspiInv, ReadBack PROVE QspiInv'
  OBVIOUS
<1>1. /\ at = "writing" /\ at' = "summing" /\ next > Len(partitions)
      /\ UNCHANGED <<partitions, file, next, target, checksum, exchanges>>
      /\ \A i \in DOMAIN partitions :
           Populated(partitions[i]) => ReadsBack(target, partitions[i])
  BY DEF ReadBack
<1>2. Admitted /\ Laid /\ checksum = NoFile
  BY <1>1 DEF QspiInv
<1>3. DOMAIN partitions = 1..(next - 1) /\ next \in Nat /\ StorageSize \in Nat
  BY <1>1, PartitionTypes, QspiAssumption DEF QspiTypes
<1>4. \A i \in DOMAIN partitions : Populated(partitions[i]) => Placed(partitions[i])
  BY <1>2, <1>3, WasPlaced DEF Laid
<1>5. /\ target \in Seq({target[c] : c \in DOMAIN target})
      /\ Len(target) \in Nat /\ Len(target) >= StorageSize
      /\ exchanges = 0 => Len(target) = StorageSize
  BY <1>2 DEF Laid
<1>6. ASSUME NEW c \in 0..(StorageSize - 1), NEW i \in DOMAIN partitions,
             Populated(partitions[i]), Covers(partitions[i], c)
      PROVE  i \in Holding(c) /\ Place(partitions[i], c) < Len(partitions[i].image)
  <2> DEFINE p == partitions[i]
  <2>1. Placed(p)
    BY <1>4, <1>6
  <2>2. PICK o \in WriteOffsets(p) : c \in o..(o + Len(p.image) - 1)
    BY <1>6 DEF Covers
  <2>3. o \in Nat /\ p.offset <= o /\ o + Len(p.image) <= p.offset + p.size
    BY <2>1, CopyInside
  <2>4. c \in p.offset..(p.offset + p.size - 1)
    BY <2>1, <2>2, <2>3 DEF Placed
  <2>5. Place(p, c) < Len(p.image)
    BY <2>1, <2>2, CopyFound
  <2> QED
    BY <1>6, <2>4, <2>5 DEF Holding
<1>7. ASSUME NEW c \in 0..(StorageSize - 1), NEW i \in Holding(c),
             Place(partitions[i], c) < Len(partitions[i].image)
      PROVE  target[c + 1] = partitions[i].image[Place(partitions[i], c) + 1]
  <2> DEFINE p == partitions[i]
  <2>1. /\ i \in DOMAIN partitions /\ Populated(p)
        /\ c \in p.offset..(p.offset + p.size - 1)
    BY DEF Holding
  <2>2. Placed(p) /\ ReadsBack(target, p)
    BY <1>1, <1>4, <2>1
  <2>3. PICK o \in WriteOffsets(p) : c \in o..(o + Len(p.image) - 1) /\ Place(p, c) = c - o
    BY <1>7, <2>1, <2>2, PlaceCopied
  <2>4. SubSeq(target, o + 1, o + Len(p.image)) = p.image
    BY <2>2 DEF ReadsBack
  <2>5. /\ o \in Nat /\ o + Len(p.image) <= p.offset + p.size
        /\ p.offset + p.size <= StorageSize /\ Len(p.image) \in Nat
        /\ p.offset \in Nat /\ p.size \in Nat
    BY <1>2, <2>1, <2>2, CopyInside DEF Placed, Admitted
  <2> DEFINE m == Len(p.image)
             k == c - o + 1
  <2> HIDE DEF p
  <2>6. /\ m \in Nat /\ o + m <= Len(target) /\ k \in 1..m /\ o + k = c + 1
    BY <1>3, <1>5, <2>3, <2>5
  <2> HIDE DEF m, k
  <2>7. SubSeq(target, o + 1, o + m)[k] = target[o + k]
    BY <1>5, <2>5, <2>6, PartOf
  <2> QED
    BY <2>3, <2>4, <2>6, <2>7 DEF m, k, p
<1>8. ASSUME NEW c \in 0..(StorageSize - 1)
      PROVE  LET expected == IF Holding(c) = {} THEN Erased
                             ELSE Stored(partitions[CHOOSE i \in Holding(c) : TRUE], c)
             IN  target[c + 1] = expected \/ (expected = Erased /\ exchanges > 0)
  <2> DEFINE h == CHOOSE i \in Holding(c) : TRUE
             expected == IF Holding(c) = {} THEN Erased ELSE Stored(partitions[h], c)
  <2>1. ASSUME NEW i \in DOMAIN partitions, Populated(partitions[i]),
               Covers(partitions[i], c)
        PROVE  i = h /\ Place(partitions[h], c) < Len(partitions[h].image)
    <3>1. i \in Holding(c) /\ Place(partitions[i], c) < Len(partitions[i].image)
      BY <1>6, <2>1
    <3>2. h \in Holding(c)
      BY <3>1
    <3>3. i = h
      BY <1>2, <3>1, <3>2, OnlyOne
    <3> QED
      BY <3>1, <3>3
  <2>2. CASE Holding(c) # {} /\ Place(partitions[h], c) < Len(partitions[h].image)
    <3>1. h \in Holding(c)
      BY <2>2
    <3>2. target[c + 1] = partitions[h].image[Place(partitions[h], c) + 1]
      BY <1>7, <2>2, <3>1
    <3>3. expected = partitions[h].image[Place(partitions[h], c) + 1]
      BY <2>2 DEF Stored, Place
    <3> QED
      BY <3>2, <3>3
  <2>3. CASE ~(Holding(c) # {} /\ Place(partitions[h], c) < Len(partitions[h].image))
    <3>1. expected = Erased
      BY <2>3 DEF Stored, Place
    <3>2. ASSUME exchanges = 0 PROVE target[c + 1] = Erased
      <4>1. \/ target[c + 1] = Erased
            \/ \E i \in 1..(next - 1) :
                 Populated(partitions[i]) /\ Covers(partitions[i], c)
        BY <1>2, <3>2 DEF Laid
      <4>2. ASSUME NEW i \in 1..(next - 1), Populated(partitions[i]),
                   Covers(partitions[i], c)
            PROVE  FALSE
        <5>1. i \in DOMAIN partitions
          BY <1>3
        <5>2. i \in Holding(c)
          BY <1>6, <4>2, <5>1
        <5> QED
          BY <2>1, <2>3, <4>2, <5>1, <5>2
      <4> QED
        BY <4>1, <4>2
    <3>3. exchanges = 0 \/ exchanges > 0
      BY DEF QspiTypes
    <3> QED
      BY <3>1, <3>2, <3>3
  <2> QED
    BY <2>2, <2>3
<1>9. Whole
  BY <1>5, <1>8 DEF Whole
<1>10. Whole'
  BY <1>1, <1>9 DEF Whole, Holding, Stored, Populated
<1>11. Admitted' /\ checksum' = NoFile
  BY <1>1, <1>2 DEF Admitted, Before, Populated
<1> QED
  BY <1>1, <1>10, <1>11 DEF QspiInv

\* A payload file that changes leaves the image, and what it says of the erased
\* units no longer counts.
LEMMA ExchangeStep ==
    ASSUME QspiTypes, QspiInv, NEW p \in Payloads, NEW contents \in Payloads,
           Exchange(p, contents)
    PROVE  QspiInv'
<1>1. /\ UNCHANGED <<partitions, at, next, target, checksum>>
      /\ exchanges' = exchanges + 1 /\ exchanges \in Nat
  BY DEF Exchange, QspiTypes
<1>2. exchanges' # 0 /\ exchanges' > 0
  BY <1>1
<1>3. Admitted => Admitted'
  BY <1>1 DEF Admitted, Before, Populated
<1>4. Laid => Laid'
  BY <1>1, <1>2 DEF Laid, Populated, Writable
<1>5. Whole => Whole'
  <2>1. ASSUME Whole, NEW c \in 0..(StorageSize - 1)
        PROVE  LET expected == IF Holding(c) = {} THEN Erased
                               ELSE Stored(partitions[CHOOSE i \in Holding(c) : TRUE], c)
               IN  target[c + 1] = expected \/ expected = Erased
    BY <2>1 DEF Whole
  <2> QED
    BY <1>1, <1>2, <2>1 DEF Whole, Holding, Stored, Populated
<1> QED
  BY <1>1, <1>3, <1>4, <1>5 DEF QspiInv

\* Types and invariant hold initially.
LEMMA QspiTypesInit == QspiInit => QspiTypes /\ QspiInv
<1> SUFFICES ASSUME QspiInit PROVE QspiTypes /\ QspiInv
  OBVIOUS
<1> DEFINE R == [name: STRING, offset: Nat, size: Nat, image: Payloads \cup {NoImage}]
<1>1. partitions \in Seq(R)
  BY QspiAssumption DEF QspiInit
<1> HIDE DEF R
<1>2. Len(partitions) \in Nat
  BY <1>1
<1>3. QspiTypes
  BY <1>2 DEF QspiInit, QspiTypes
<1>4. QspiInv
  BY DEF QspiInit, QspiInv
<1> QED
  BY <1>3, <1>4

\* Every step keeps the types.
LEMMA QspiTypesNext == QspiTypes /\ [QspiNext]_qspiVars => QspiTypes'
<1> SUFFICES ASSUME QspiTypes, [QspiNext]_qspiVars PROVE QspiTypes'
  OBVIOUS
<1>1. Len(partitions) \in Nat /\ partitions \in Catalogs
      /\ next \in 1..(Len(partitions) + 1)
  BY PartitionTypes DEF QspiTypes
<1>2. CASE UNCHANGED <<partitions, file, exchanges>> /\ next' \in {1, next}
  BY <1>1, <1>2 DEF QspiTypes
<1>3. CASE WritePartition
  BY <1>1, <1>3 DEF QspiTypes, WritePartition
<1>4. CASE CleanDirectory
  BY <1>1, <1>4 DEF QspiTypes, CleanDirectory
<1>5. CASE \E p, contents \in Payloads : Exchange(p, contents)
  BY <1>1, <1>5 DEF QspiTypes, Exchange
<1>6. CASE \/ Load \/ Create \/ ReadBack \/ BeginChecksum \/ WriteChecksum
           \/ Fail \/ KillBuilder
  BY <1>2, <1>6 DEF Load, Create, ReadBack, BeginChecksum, WriteChecksum, Fail, KillBuilder
<1>7. CASE UNCHANGED qspiVars
  BY <1>2, <1>7 DEF qspiVars
<1> QED
  BY <1>3, <1>4, <1>5, <1>6, <1>7 DEF QspiNext

\* Every step keeps the invariant.
LEMMA QspiInvNext == QspiTypes /\ QspiInv /\ [QspiNext]_qspiVars => QspiInv'
<1> SUFFICES ASSUME QspiTypes, QspiInv, [QspiNext]_qspiVars PROVE QspiInv'
  OBVIOUS
<1>1. CASE Load
  BY <1>1, LoadStep
<1>2. CASE Create
  BY <1>2, CreateStep
<1>3. CASE WritePartition
  BY <1>3, WriteStep
<1>4. CASE ReadBack
  BY <1>4, ReadBackStep
\* The image stays in the steps that are left.
<1>5. ASSUME UNCHANGED <<partitions, target, exchanges>> PROVE Whole => Whole'
  BY <1>5 DEF Whole, Holding, Stored, Populated
<1>6. ASSUME UNCHANGED partitions PROVE Admitted => Admitted'
  BY <1>6 DEF Admitted, Before, Populated
<1>7. CASE BeginChecksum
  <2>1. /\ at = "summing" /\ at' = at /\ checksum' = Part
        /\ UNCHANGED <<partitions, target, exchanges>>
    BY <1>7 DEF BeginChecksum
  <2> QED
    BY <1>5, <1>6, <2>1 DEF QspiInv
<1>8. CASE WriteChecksum
  <2>1. /\ at = "summing" /\ at' = "built" /\ checksum' = target
        /\ UNCHANGED <<partitions, target, exchanges>>
    BY <1>8 DEF WriteChecksum
  <2> QED
    BY <1>5, <2>1 DEF QspiInv
<1>9. CASE Fail
  <2>1. at' = "failed" /\ checksum' = NoFile
    BY <1>9 DEF Fail
  <2> QED
    BY <2>1 DEF QspiInv
<1>10. CASE KillBuilder
  <2>1. /\ at' = "killed"
        /\ UNCHANGED <<partitions, target, checksum, exchanges>>
    BY <1>10 DEF KillBuilder
  <2> QED
    BY <1>5, <2>1 DEF QspiInv
<1>11. CASE CleanDirectory
  <2>1. at' = "idle" /\ checksum' = NoFile
    BY <1>11 DEF CleanDirectory
  <2> QED
    BY <2>1 DEF QspiInv
<1>12. CASE \E p, contents \in Payloads : Exchange(p, contents)
  BY <1>12, ExchangeStep
<1>13. CASE UNCHANGED qspiVars
  <2>1. Laid => Laid'
    BY <1>13 DEF qspiVars, Laid, Covers, WriteOffsets, Populated, Writable
  <2> QED
    BY <1>5, <1>6, <1>13, <2>1 DEF QspiInv, qspiVars
<1> QED
  BY <1>1, <1>2, <1>3, <1>4, <1>7, <1>8, <1>9, <1>10, <1>11, <1>12, <1>13 DEF QspiNext

\* Whatever fails, dies, is run again or changes under the builder, an image
\* with a checksum holds every payload of its catalog in its place, the BCT in
\* every erase block, for every geometry of the storage and every catalog
\* (qspi-flash.py, build_image).
THEOREM ImageIsCatalog == QspiSpec => []ChecksumMeansImage
<1>1. QspiInit => QspiTypes /\ QspiInv
  BY QspiTypesInit
<1>2. QspiTypes /\ QspiInv /\ [QspiNext]_qspiVars => (QspiTypes /\ QspiInv)'
  BY QspiTypesNext, QspiInvNext
<1>3. QspiTypes /\ QspiInv => ChecksumMeansImage
  BY DEF QspiInv, Whole, ChecksumMeansImage
<1> QED
  BY <1>1, <1>2, <1>3, PTL DEF QspiSpec
=============================================================================
