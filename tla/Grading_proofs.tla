--------------------------- MODULE Grading_proofs ---------------------------
(***************************************************************************)
(* Proofs about Grading: how the class of a finding follows from the facts *)
(* of the scan, what the grade then owes to it, and how the overall score  *)
(* relates to those of the groups.                                         *)
(***************************************************************************)
EXTENDS Grading, FunctionTheorems, FiniteSetTheorems, WellFoundedInduction,
        SequenceTheorems, TLAPS

(***************************************************************************)
(* Numbers.                                                                *)
(***************************************************************************)
LEMMA NatWF == IsWellFoundedOn({p \in Nat \X Nat : p[1] < p[2]}, Nat)
BY NatLessThanWellFounded DEF OpToRel

\* A non-empty set of numbers has a least one.
LEMMA Least ==
    ASSUME NEW S \in SUBSET Nat, S # {}
    PROVE  \E m \in S : \A k \in S : m <= k
<1> DEFINE R == {p \in Nat \X Nat : p[1] < p[2]}
<1>1. IsWellFoundedOn(R, Nat)
  BY NatWF
<1> HIDE DEF R
<1>2. PICK m \in S : \A k \in S : ~(<<k, m>> \in R)
  BY <1>1, WFMin
<1>3. ASSUME NEW k \in S
      PROVE  m <= k
  <2>1. m \in Nat /\ k \in Nat /\ ~(<<k, m>> \in R)
    BY <1>2
  <2> QED BY <2>1 DEF R
<1> QED BY <1>3

\* A bounded one has a greatest.
LEMMA Greatest ==
    ASSUME NEW S \in SUBSET Nat, S # {}, NEW n \in Nat, \A k \in S : k <= n
    PROVE  \E m \in S : \A k \in S : k <= m
<1> DEFINE T == {x \in Nat : \E k \in S : x = n - k}
<1>1. T \in SUBSET Nat /\ T # {}
  <2>1. PICK k \in S : TRUE
    OBVIOUS
  <2>2. n - k \in T
    BY <2>1
  <2> QED BY <2>2
<1>2. PICK t \in T : \A u \in T : t <= u
  BY <1>1, Least
<1>3. PICK m \in S : t = n - m
  BY <1>2
<1>4. ASSUME NEW k \in S
      PROVE  k <= m
  <2>1. n - m <= n - k
    BY <1>2, <1>3
  <2> QED BY <2>1
<1> QED BY <1>4

\* So has a finite one.
LEMMA FiniteGreatest ==
    ASSUME NEW S \in SUBSET Nat, S # {}, IsFiniteSet(S)
    PROVE  \E m \in S : \A k \in S : k <= m
<1> DEFINE Bad == {n \in Nat : \E T \in SUBSET Nat :
                      /\ T # {} /\ IsFiniteSet(T) /\ Cardinality(T) = n
                      /\ ~ \E m \in T : \A k \in T : k <= m}
<1> SUFFICES ASSUME Bad # {} PROVE FALSE
  BY FS_CardinalityType
<1>1. PICK n \in Bad : \A k \in Bad : n <= k
  BY Least
<1>2. PICK T \in SUBSET Nat : /\ T # {} /\ IsFiniteSet(T) /\ Cardinality(T) = n
                              /\ ~ \E m \in T : \A k \in T : k <= m
  BY <1>1
<1>3. PICK x \in T : TRUE
  BY <1>2
<1> DEFINE U == T \ {x}
<1>4. IsFiniteSet(U) /\ Cardinality(U) = n - 1 /\ n \in Nat
  BY <1>1, <1>2, <1>3, FS_RemoveElement
<1>5. U # {}
  BY <1>2, <1>3
<1>6. PICK m \in U : \A k \in U : k <= m
  <2>1. n - 1 \notin Bad
    BY <1>1, <1>4
  <2>2. n - 1 \in Nat
    BY <1>4, FS_CardinalityType
  <2> QED BY <1>4, <1>5, <2>1, <2>2
<1>7. \A k \in T : k <= IF x <= m THEN m ELSE x
  BY <1>3, <1>6
<1> QED BY <1>2, <1>3, <1>6, <1>7

\* The places of an order are all taken: the k-th element of a finite set has k - 1
\* before it, and there is one for every k.
LEMMA EveryRankIsTaken ==
    ASSUME NEW P, IsFiniteSet(P), NEW before,
           \A i \in P : <<i, i>> \notin before,
           \A i, j, k \in P : <<i, j>> \in before /\ <<j, k>> \in before
                                => <<i, k>> \in before,
           \A i, j \in P : i # j => <<i, j>> \in before \/ <<j, i>> \in before,
           NEW k \in 1..Cardinality(P)
    PROVE  \E i \in P : Rank(P, before, i) = k - 1
<1> DEFINE n      == Cardinality(P)
           Pre(i) == {j \in P : <<j, i>> \in before}
           f      == [i \in P |-> Cardinality(Pre(i)) + 1]
<1>1. n \in Nat
  BY FS_CardinalityType
<1>2. ASSUME NEW i \in P
      PROVE  /\ IsFiniteSet(Pre(i)) /\ Cardinality(Pre(i)) \in Nat
             /\ Cardinality(Pre(i)) <= n - 1
  <2>1. IsFiniteSet(P \ {i}) /\ Cardinality(P \ {i}) = n - 1
    BY FS_RemoveElement
  <2>2. Pre(i) \in SUBSET (P \ {i})
    OBVIOUS
  <2> HIDE DEF Pre
  <2>3. IsFiniteSet(Pre(i)) /\ Cardinality(Pre(i)) <= n - 1
    BY <2>1, <2>2, FS_Subset
  <2> QED BY <2>3, FS_CardinalityType
<1>3. ASSUME NEW i \in P, NEW j \in P, <<i, j>> \in before
      PROVE  Cardinality(Pre(i)) < Cardinality(Pre(j))
  <2>1. /\ IsFiniteSet(Pre(j) \ {i})
        /\ Cardinality(Pre(j) \ {i}) = Cardinality(Pre(j)) - 1
    <3>1. i \in Pre(j)
      BY <1>3
    <3> QED BY <1>2, <3>1, FS_RemoveElement
  <2>2. Pre(i) \in SUBSET (Pre(j) \ {i})
    BY <1>3
  <2> HIDE DEF Pre
  <2>3. Cardinality(Pre(i)) <= Cardinality(Pre(j)) - 1
    BY <2>1, <2>2, FS_Subset
  <2>4. Cardinality(Pre(i)) \in Nat /\ Cardinality(Pre(j)) \in Nat
    BY <1>2
  <2> QED BY <2>3, <2>4
<1>4. f \in [P -> 1..n]
  <2> SUFFICES ASSUME NEW i \in P PROVE Cardinality(Pre(i)) + 1 \in 1..n
    OBVIOUS
  <2>1. Cardinality(Pre(i)) \in Nat /\ Cardinality(Pre(i)) <= n - 1
    BY <1>2
  <2> HIDE DEF Pre, n
  <2> QED BY <1>1, <2>1
<1>5. ASSUME NEW i \in P, NEW j \in P, f[i] = f[j]
      PROVE  i = j
  <2>1. /\ Cardinality(Pre(i)) \in Nat /\ Cardinality(Pre(j)) \in Nat
        /\ Cardinality(Pre(i)) + 1 = Cardinality(Pre(j)) + 1
    BY <1>2, <1>5
  <2>2. Cardinality(Pre(i)) = Cardinality(Pre(j))
    <3> HIDE DEF Pre
    <3> QED BY <2>1
  <2>3. ~(<<i, j>> \in before) /\ ~(<<j, i>> \in before)
    <3> HIDE DEF Pre
    <3> QED BY <1>3, <2>1, <2>2
  <2> QED BY <2>3
<1>6. f \in Injection(P, 1..n)
  BY <1>4, <1>5, Fun_IsInj
<1>7. IsFiniteSet(1..n) /\ Cardinality(1..n) = n
  BY <1>1, FS_Interval
<1>8. f \in Surjection(P, 1..n)
  BY <1>6, <1>7, FS_Injection
<1>9. PICK i \in P : f[i] = k
  BY <1>8 DEF Surjection
<1>10. Cardinality(Pre(i)) \in Nat /\ Cardinality(Pre(i)) + 1 = k
  BY <1>2, <1>9
<1> HIDE DEF Pre
<1>11. Cardinality(Pre(i)) = k - 1
  BY <1>10
<1> QED BY <1>11 DEF Pre, Rank

-----------------------------------------------------------------------------
(***************************************************************************)
(* The effective host port.                                                *)
(***************************************************************************)
\* What a ScanContext may hold.
ScanFacts ==
    [services : Seq(Service), wanted : SUBSET Ports, probed : BOOLEAN,
     open : SUBSET Ports, collected : BOOLEAN, sockets : SUBSET (Ports \X Binds),
     drop : BOOLEAN, allow : SUBSET Ports, deny : SUBSET Ports,
     arr : {"absent", "on", "off"}, arrPort : Ports \cup {0}]

LEMMA MappingsType ==
    ASSUME NEW s \in ScanFacts
    PROVE  /\ Mappings(s) \in SUBSET (Nat \X Nat)
           /\ \A x \in Mappings(s) : x[1] \in 1..Len(s.services)
           /\ \A x \in Mappings(s) : mapping(s, x) \in PortMapping
<1>1. ASSUME NEW i \in DOMAIN s.services
      PROVE  /\ i \in 1..Len(s.services) /\ s.services[i].ports \in Seq(PortMapping)
             /\ DOMAIN s.services[i].ports \in SUBSET Nat
  <2>1. s.services[i] \in Service /\ i \in 1..Len(s.services)
    BY DEF ScanFacts
  <2>2. s.services[i].ports \in Seq(PortMapping)
    BY <2>1 DEF Service
  <2> QED BY <2>1, <2>2
<1>2. ASSUME NEW x \in Mappings(s)
      PROVE  \E i \in DOMAIN s.services :
                \E j \in DOMAIN s.services[i].ports : x = <<i, j>>
  BY DEF Mappings
<1>3. ASSUME NEW x \in Mappings(s)
      PROVE  /\ x \in Nat \X Nat /\ x[1] \in 1..Len(s.services)
             /\ mapping(s, x) \in PortMapping
  <2>1. PICK i \in DOMAIN s.services :
            \E j \in DOMAIN s.services[i].ports : x = <<i, j>>
    BY <1>2
  <2>2. PICK j \in DOMAIN s.services[i].ports : x = <<i, j>>
    BY <2>1
  <2>3. /\ i \in 1..Len(s.services) /\ i \in Nat /\ j \in Nat
        /\ s.services[i].ports[j] \in PortMapping
    BY <1>1
  <2> QED BY <2>2, <2>3 DEF mapping
<1> QED BY <1>3

\* A set of places has a first one.
LEMMA FirstExists ==
    ASSUME NEW ms \in SUBSET (Nat \X Nat), ms # {}
    PROVE  \E x \in ms : \A y \in ms : InFileOrder(x, y)
<1> DEFINE I == {i \in Nat : \E y \in ms : y[1] = i}
<1>1. I \in SUBSET Nat /\ I # {}
  OBVIOUS
<1>2. PICK i \in I : \A k \in I : i <= k
  BY <1>1, Least
<1> DEFINE J == {j \in Nat : <<i, j>> \in ms}
<1>3. J \in SUBSET Nat /\ J # {}
  <2>1. PICK y \in ms : y[1] = i
    BY <1>2
  <2>2. y = <<i, y[2]>> /\ y[2] \in Nat
    BY <2>1
  <2> QED BY <2>2
<1>4. PICK j \in J : \A k \in J : j <= k
  BY <1>3, Least
<1>5. ASSUME NEW y \in ms
      PROVE  InFileOrder(<<i, j>>, y)
  <2>1. y = <<y[1], y[2]>> /\ y[1] \in Nat /\ y[2] \in Nat
    OBVIOUS
  <2>2. i <= y[1] /\ (y[1] = i => j <= y[2]) /\ i \in Nat
    BY <1>2, <1>4, <2>1
  <2> QED BY <2>1, <2>2 DEF InFileOrder
<1> QED BY <1>4, <1>5

\* And only one.
LEMMA FirstIsUnique ==
    ASSUME NEW x \in Nat \X Nat, NEW y \in Nat \X Nat, InFileOrder(x, y), InFileOrder(y, x)
    PROVE  x = y
<1>1. x = <<x[1], x[2]>> /\ y = <<y[1], y[2]>>
  OBVIOUS
<1>2. x[1] \in Nat /\ x[2] \in Nat /\ y[1] \in Nat /\ y[2] \in Nat
  OBVIOUS
<1>3. x[1] = y[1] /\ x[2] = y[2]
  BY <1>2 DEF InFileOrder
<1> QED BY <1>1, <1>3

\* The class of a host port is always one of the six.
LEMMA ClassType ==
    ASSUME NEW s \in ScanFacts, NEW h
    PROVE  ClassAt(s, h) \in Classes
<1> USE DEF Classes, Unknown, Localhost, Overlay, LAN, Filtered, Internet
<1>1. CASE BindsOf(s, h) # {}
  <2> DEFINE cs == {bindClass[b] : b \in BindsOf(s, h)}
  <2>1. cs \in SUBSET Nat /\ cs # {} /\ \A c \in cs : c <= 5
    <3>1. \A b \in Binds : bindClass[b] \in 0..5
      BY DEF Binds, bindClass
    <3>2. BindsOf(s, h) \subseteq Binds
      BY DEF BindsOf
    <3> QED BY <1>1, <3>1, <3>2
  <2>2. PICK c \in cs : \A d \in cs : d <= c
    <3> HIDE DEF cs
    <3> QED BY <2>1, Greatest
  <2>3. \E x \in cs : \A y \in cs : x >= y
    BY <2>1, <2>2
  <2>4. Max(cs) \in cs
    BY <2>3 DEF Max
  <2>5. maxBindClass(s, h) \in 0..5
    BY <2>1, <2>4 DEF maxBindClass
  <2> QED BY <1>1, <2>5 DEF ClassAt
<1>2. CASE BindsOf(s, h) = {} /\ s.probed
  BY <1>2 DEF ClassAt
<1>3. CASE BindsOf(s, h) = {} /\ ~s.probed
  BY <1>3 DEF ClassAt
<1> QED BY <1>1, <1>2, <1>3 DEF ScanFacts

\* hostPortsFor has a first most exposed mapping, and Effective is its host port.
LEMMA EffectiveMapping ==
    ASSUME NEW s \in ScanFacts, NEW p, hostPortsFor(s, p) # {}
    PROVE  \E x \in hostPortsFor(s, p) :
              /\ Effective(s, p) = mapping(s, x).host
              /\ \A y \in hostPortsFor(s, p) :
                    /\ ClassAt(s, mapping(s, y).host) <= ClassAt(s, mapping(s, x).host)
                    /\ ClassAt(s, mapping(s, y).host) = ClassAt(s, mapping(s, x).host)
                          => InFileOrder(x, y)
<1> DEFINE ms       == hostPortsFor(s, p)
           Class(x) == ClassAt(s, mapping(s, x).host)
           Top      == {x \in ms : \A y \in ms : Class(y) <= Class(x)}
<1>1. ms \in SUBSET (Nat \X Nat)
  BY MappingsType DEF hostPortsFor
<1>2. \A x \in ms : Class(x) \in 0..5
  BY ClassType DEF Classes, Unknown, Internet
<1>3. Top # {}
  <2> DEFINE cs == {Class(x) : x \in ms}
  <2>1. cs \in SUBSET Nat /\ cs # {} /\ \A c \in cs : c <= 5
    BY <1>2
  <2>2. PICK c \in cs : \A d \in cs : d <= c
    <3> HIDE DEF cs
    <3> QED BY <2>1, Greatest
  <2>3. PICK x \in ms : c = Class(x)
    BY <2>2
  <2> QED BY <2>2, <2>3
<1> HIDE DEF Class
<1>4. \E x \in Top : \A y \in Top : InFileOrder(x, y)
  BY <1>1, <1>3, FirstExists
<1>5. FirstMapping(Top) \in Top /\ \A y \in Top : InFileOrder(FirstMapping(Top), y)
  BY <1>4 DEF FirstMapping
<1> DEFINE x == FirstMapping(Top)
<1>6. Effective(s, p) = mapping(s, x).host
  BY DEF Effective, Class
<1>7. ASSUME NEW y \in ms
      PROVE  Class(y) <= Class(x) /\ (Class(y) = Class(x) => InFileOrder(x, y))
  <2>1. Class(y) <= Class(x)
    BY <1>5
  <2>2. Class(y) = Class(x) => y \in Top
    BY <1>5
  <2> QED BY <1>5, <2>1, <2>2
<1> QED BY <1>5, <1>6, <1>7 DEF Class

\* Nothing else is: a first most exposed mapping gives the effective host port.
LEMMA EffectiveIsThat ==
    ASSUME NEW s \in ScanFacts, NEW p, NEW x \in hostPortsFor(s, p),
           \A y \in hostPortsFor(s, p) :
              /\ ClassAt(s, mapping(s, y).host) <= ClassAt(s, mapping(s, x).host)
              /\ ClassAt(s, mapping(s, y).host) = ClassAt(s, mapping(s, x).host)
                    => InFileOrder(x, y)
    PROVE  Effective(s, p) = mapping(s, x).host
<1> DEFINE Class(z) == ClassAt(s, mapping(s, z).host)
<1>1. PICK z \in hostPortsFor(s, p) :
          /\ Effective(s, p) = mapping(s, z).host
          /\ \A y \in hostPortsFor(s, p) :
                Class(y) <= Class(z) /\ (Class(y) = Class(z) => InFileOrder(z, y))
  BY EffectiveMapping
<1>2. Class(x) \in 0..5 /\ Class(z) \in 0..5
  BY ClassType DEF Classes, Unknown, Internet
<1>3. Class(x) <= Class(z) /\ Class(z) <= Class(x)
  BY <1>1
<1>4. Class(x) = Class(z)
  <2> HIDE DEF Class
  <2> QED BY <1>2, <1>3
<1>5. InFileOrder(x, z) /\ InFileOrder(z, x)
  BY <1>1, <1>4
<1>6. x \in Nat \X Nat /\ z \in Nat \X Nat
  BY MappingsType DEF hostPortsFor
<1> QED BY <1>1, <1>5, <1>6, FirstIsUnique

\* classifyOne looks at the candidates, and takes one of the most exposed.
LEMMA EffectiveIsWorst ==
    ASSUME NEW s \in ScanFacts, NEW p
    PROVE  /\ Effective(s, p) \in Candidates(s, p)
           /\ \A h \in Candidates(s, p) : ClassAt(s, h) <= ClassAt(s, Effective(s, p))
<1>1. CASE hostPortsFor(s, p) = {}
  <2>1. Effective(s, p) = p /\ Candidates(s, p) = {p}
    BY <1>1 DEF Effective, Candidates
  <2>2. ClassAt(s, p) \in 0..5
    BY ClassType DEF Classes, Unknown, Internet
  <2> QED BY <2>1, <2>2
<1>2. CASE hostPortsFor(s, p) # {}
  <2>1. PICK x \in hostPortsFor(s, p) :
            /\ Effective(s, p) = mapping(s, x).host
            /\ \A y \in hostPortsFor(s, p) :
                  ClassAt(s, mapping(s, y).host) <= ClassAt(s, mapping(s, x).host)
    BY <1>2, EffectiveMapping
  <2>2. Candidates(s, p) = {mapping(s, y).host : y \in hostPortsFor(s, p)}
    BY <1>2 DEF Candidates
  <2> QED BY <2>1, <2>2
<1> QED BY <1>1, <1>2

-----------------------------------------------------------------------------
(***************************************************************************)
(* The compensating controls.                                              *)
(***************************************************************************)
AllControls == {"overlay", "firewall"}

LEMMA ControlsCounted ==
    ASSUME NEW ks \in SUBSET AllControls
    PROVE  /\ Cardinality(ks) \in 0..2
           /\ Cardinality(ks) = 0 <=> ks = {}
           /\ Cardinality(ks) = 2 <=> ks = AllControls
           /\ \A js \in SUBSET ks : Cardinality(js) \in Nat /\ Cardinality(js) <= Cardinality(ks)
<1>1. IsFiniteSet({"firewall"}) /\ Cardinality({"firewall"}) = 1
  BY FS_Singleton
<1>2. {"firewall"} \cup {"overlay"} = AllControls
  BY DEF AllControls
<1>3. IsFiniteSet(AllControls) /\ Cardinality(AllControls) = 2
  <2>1. "overlay" \notin {"firewall"}
    OBVIOUS
  <2>2. /\ IsFiniteSet({"firewall"} \cup {"overlay"})
        /\ Cardinality({"firewall"} \cup {"overlay"}) = Cardinality({"firewall"}) + 1
    BY <1>1, <2>1, FS_AddElement
  <2> QED BY <1>1, <1>2, <2>2
<1>4. /\ IsFiniteSet(ks) /\ Cardinality(ks) \in Nat /\ Cardinality(ks) <= 2
      /\ Cardinality(ks) = 2 => ks = AllControls
  <2>1. IsFiniteSet(ks)
    BY <1>3, FS_Subset
  <2>2. Cardinality(ks) <= Cardinality(AllControls)
    BY <1>3, FS_Subset
  <2>3. Cardinality(AllControls) = Cardinality(ks) => ks = AllControls
    BY <1>3, FS_Subset
  <2> QED BY <1>3, <2>1, <2>2, <2>3, FS_CardinalityType
<1>5. Cardinality(ks) = 0 <=> ks = {}
  BY <1>4, FS_EmptySet
<1>6. ASSUME NEW js \in SUBSET ks
      PROVE  Cardinality(js) \in Nat /\ Cardinality(js) <= Cardinality(ks)
  <2>1. IsFiniteSet(js) /\ Cardinality(js) <= Cardinality(ks)
    BY <1>4, FS_Subset
  <2> QED BY <2>1, FS_CardinalityType
<1> QED BY <1>3, <1>4, <1>5, <1>6

\* More controls never give a higher class, and none leaves it as it is.
LEMMA ControlsLower ==
    ASSUME NEW c \in Classes, NEW ks \in SUBSET AllControls
    PROVE  /\ applyControls(c, ks) \in Classes
           /\ applyControls(c, ks) <= c
           /\ ks = {} => applyControls(c, ks) = c
           /\ \A js \in SUBSET ks : applyControls(c, ks) <= applyControls(c, js)
<1> USE DEF Classes, Unknown, Localhost, Internet
<1>1. /\ Cardinality(ks) \in 0..2
      /\ Cardinality(ks) = 0 <=> ks = {}
  BY ControlsCounted
<1>2. ASSUME NEW js \in SUBSET ks
      PROVE  applyControls(c, ks) <= applyControls(c, js)
  <2>1. Cardinality(js) \in 0..2 /\ Cardinality(js) <= Cardinality(ks)
    BY ControlsCounted
  <2> QED BY <1>1, <2>1 DEF applyControls, prevBand
<1>3. applyControls(c, ks) \in Classes /\ applyControls(c, ks) <= c
  BY <1>1 DEF applyControls, prevBand
<1>4. ks = {} => applyControls(c, ks) = c
  BY <1>1 DEF applyControls
<1> QED BY <1>2, <1>3, <1>4

\* Both controls are there only for a port that nothing but the overlay reaches.
LEMMA BothControls ==
    ASSUME NEW s \in ScanFacts, NEW h
    PROVE  /\ Controls(s, h) \in SUBSET AllControls
           /\ Controls(s, h) # {} => ClassAt(s, h) > Localhost
           /\ Controls(s, h) = AllControls => ClassAt(s, h) = Overlay
<1> USE DEF Unknown, Localhost, Overlay, LAN, Filtered, Internet
<1>1. Controls(s, h) \in SUBSET AllControls
  BY DEF Controls, AllControls
<1>2. ClassAt(s, h) \in 0..5
  BY ClassType DEF Classes
<1>3. Controls(s, h) # {} => ClassAt(s, h) > Localhost
  <2>1. Controls(s, h) # {} => ClassAt(s, h) \notin {0, 1}
    BY DEF Controls
  <2> QED BY <1>2, <2>1
<1>4. ASSUME Controls(s, h) = AllControls
      PROVE  ClassAt(s, h) = Overlay
  <2>1. /\ BindsOf(s, h) # {} /\ BindsOf(s, h) \subseteq Binds
        /\ \A b \in BindsOf(s, h) : bindClass[b] \in {1, 2}
        /\ ClassAt(s, h) > 1
    <3>1. "overlay" \in Controls(s, h)
      BY <1>4 DEF AllControls
    <3>2. overlayOnly(s, h)
      BY <3>1 DEF Controls
    <3> QED BY <1>2, <3>1, <3>2 DEF overlayOnly, Controls, BindsOf
  <2> DEFINE cs == {bindClass[b] : b \in BindsOf(s, h)}
  <2>2. cs \in SUBSET Nat /\ cs # {} /\ \A c \in cs : c <= 2
    BY <2>1
  <2>3. PICK c \in cs : \A d \in cs : d <= c
    <3> HIDE DEF cs
    <3> QED BY <2>2, Greatest
  <2>4. \E x \in cs : \A y \in cs : x >= y
    BY <2>2, <2>3
  <2>5. Max(cs) \in cs
    BY <2>4 DEF Max
  <2>6. Max(cs) \in Nat /\ Max(cs) <= 2
    BY <2>2, <2>5
  <2>7. ClassAt(s, h) = Max(cs)
    BY <2>1, <2>6 DEF ClassAt, maxBindClass
  <2> QED BY <2>1, <2>6, <2>7
<1> QED BY <1>1, <1>3, <1>4

\* The class of a host port once its controls are applied.
Mitigated(s, h) == applyControls(ClassAt(s, h), Controls(s, h))

\* Controls do not turn the order of two classes round.
LEMMA HigherStaysHigher ==
    ASSUME NEW s \in ScanFacts, NEW h, NEW t \in ScanFacts, NEW g,
           ClassAt(s, h) < ClassAt(t, g)
    PROVE  Mitigated(s, h) <= Mitigated(t, g)
<1> DEFINE c  == ClassAt(s, h)
           d  == ClassAt(t, g)
           ks == Controls(t, g)
<1>1. c \in 0..5 /\ d \in 0..5
  BY ClassType DEF Classes, Unknown, Internet
<1>2. Mitigated(s, h) \in 0..5 /\ Mitigated(s, h) <= c
  BY ClassType, BothControls, ControlsLower DEF Mitigated, Classes, Unknown, Internet
<1>3. /\ Cardinality(ks) \in 0..2
      /\ Cardinality(ks) # 0 => d > 1
      /\ Cardinality(ks) = 2 => d = 2
  BY BothControls, ControlsCounted DEF Localhost, Overlay
<1>4. c <= applyControls(d, ks)
  <2> HIDE DEF c, d, ks
  <2>1. c < d
    BY DEF c, d
  <2> QED BY <1>1, <1>3, <2>1 DEF applyControls, prevBand, Localhost
<1>5. applyControls(d, ks) \in 0..5
  BY ClassType, BothControls, ControlsLower DEF Classes, Unknown, Internet
<1>6. Mitigated(t, g) = applyControls(d, ks)
  BY DEF Mitigated
<1> HIDE DEF c, d, ks
<1> QED BY <1>1, <1>2, <1>4, <1>5, <1>6

\* Nor does one class with fewer controls fall below the same class with more.
LEMMA FewerControls ==
    ASSUME NEW s \in ScanFacts, NEW h, NEW t \in ScanFacts, NEW g,
           ClassAt(s, h) = ClassAt(t, g), Controls(t, g) \subseteq Controls(s, h)
    PROVE  Mitigated(s, h) <= Mitigated(t, g)
<1>1. ClassAt(t, g) \in Classes /\ Controls(s, h) \in SUBSET AllControls
  BY ClassType, BothControls
<1> QED BY <1>1, ControlsLower DEF Mitigated

-----------------------------------------------------------------------------
(***************************************************************************)
(* NeverSafer, one kind of observation at a time.                          *)
(***************************************************************************)
LEMMA ClassOfPort ==
    ASSUME NEW s, NEW p
    PROVE  classifyOne(s, p).class = Mitigated(s, Effective(s, p))
BY DEF classifyOne, Mitigated

\* A rule or a default policy that drops less: the classes are those before, and no
\* control is new.
LEMMA FewerDrops ==
    ASSUME NEW s \in ScanFacts, NEW t \in ScanFacts, NEW p,
           t.services = s.services, t.wanted = s.wanted, t.probed = s.probed,
           t.open = s.open, t.sockets = s.sockets,
           \A h : firewallDrops(t, h) => firewallDrops(s, h)
    PROVE  classifyOne(s, p).class <= classifyOne(t, p).class
<1>1. /\ Mappings(t) = Mappings(s)
      /\ \A x : mapping(t, x) = mapping(s, x)
      /\ \A h : BindsOf(t, h) = BindsOf(s, h)
  BY DEF Mappings, mapping, BindsOf
<1>2. /\ \A h : declaredPublic(t, h) = declaredPublic(s, h)
      /\ BuildIntended(t) = BuildIntended(s)
  BY <1>1 DEF declaredPublic, BuildIntended
<1>3. \A h : ClassAt(t, h) = ClassAt(s, h)
  BY <1>1, <1>2 DEF ClassAt, maxBindClass
<1>4. Effective(t, p) = Effective(s, p)
  BY <1>1, <1>3 DEF Effective, hostPortsFor
<1>5. ASSUME NEW h
      PROVE  Controls(t, h) \subseteq Controls(s, h)
  <2>1. overlayOnly(t, h) = overlayOnly(s, h)
    BY <1>1 DEF overlayOnly
  <2>2. ClassAt(t, h) = ClassAt(s, h)
    BY <1>3
  <2> QED BY <2>1, <2>2 DEF Controls
<1>6. Mitigated(s, Effective(s, p)) <= Mitigated(t, Effective(t, p))
  BY <1>3, <1>4, <1>5, FewerControls
<1> QED BY <1>6, ClassOfPort

\* If no class falls, and that of the port which decides has not changed, then that
\* port decided before.
LEMMA StillDecides ==
    ASSUME NEW s \in ScanFacts, NEW t \in ScanFacts, NEW p,
           hostPortsFor(t, p) = hostPortsFor(s, p), \A x : mapping(t, x) = mapping(s, x),
           \A h : ClassAt(s, h) <= ClassAt(t, h),
           ClassAt(t, Effective(t, p)) = ClassAt(s, Effective(t, p))
    PROVE  Effective(s, p) = Effective(t, p)
<1> DEFINE e1 == Effective(t, p)
<1>1. CASE hostPortsFor(s, p) = {}
  BY <1>1 DEF Effective
<1>2. CASE hostPortsFor(s, p) # {}
  <2>1. PICK x \in hostPortsFor(s, p) :
            /\ e1 = mapping(s, x).host
            /\ \A y \in hostPortsFor(s, p) :
                  /\ ClassAt(t, mapping(s, y).host) <= ClassAt(t, mapping(s, x).host)
                  /\ ClassAt(t, mapping(s, y).host) = ClassAt(t, mapping(s, x).host)
                        => InFileOrder(x, y)
    <3>1. hostPortsFor(t, p) # {}
      BY <1>2
    <3> QED BY <3>1, EffectiveMapping
  <2>2. ASSUME NEW y \in hostPortsFor(s, p)
        PROVE  /\ ClassAt(s, mapping(s, y).host) <= ClassAt(s, mapping(s, x).host)
               /\ ClassAt(s, mapping(s, y).host) = ClassAt(s, mapping(s, x).host)
                     => InFileOrder(x, y)
    <3> DEFINE a == mapping(s, y).host
    <3>1. ClassAt(t, a) <= ClassAt(t, e1) /\ ClassAt(s, a) <= ClassAt(t, a)
      BY <2>1
    <3>2. ClassAt(t, a) = ClassAt(t, e1) => InFileOrder(x, y)
      BY <2>1
    <3>3. ClassAt(s, a) \in 0..5 /\ ClassAt(t, a) \in 0..5 /\ ClassAt(t, e1) \in 0..5
      BY ClassType DEF Classes, Unknown, Internet
    <3>4. ClassAt(t, e1) = ClassAt(s, e1)
      OBVIOUS
    <3> HIDE DEF a, e1
    <3>5. ClassAt(s, a) <= ClassAt(s, e1)
      BY <3>1, <3>3, <3>4
    <3>6. ClassAt(s, a) = ClassAt(s, e1) => InFileOrder(x, y)
      BY <3>1, <3>2, <3>3, <3>4
    <3> QED BY <2>1, <3>5, <3>6 DEF a
  <2>3. Effective(s, p) = mapping(s, x).host
    BY <2>2, EffectiveIsThat
  <2> QED BY <2>1, <2>3
<1> QED BY <1>1, <1>2

\* One more open port raises classes, and takes the controls of that port away.
LEMMA OneMoreOpenPort ==
    ASSUME NEW s \in ScanFacts, s.probed, NEW q \in Ports, NEW p
    PROVE  LET t == [s EXCEPT !.open = @ \cup {q}]
           IN classifyOne(s, p).class <= classifyOne(t, p).class
<1> DEFINE t  == [s EXCEPT !.open = @ \cup {q}]
           e  == Effective(s, p)
           e1 == Effective(t, p)
<1>1. /\ t \in ScanFacts /\ t.open = s.open \cup {q}
      /\ t.services = s.services /\ t.wanted = s.wanted /\ t.probed = s.probed
      /\ t.sockets = s.sockets /\ t.allow = s.allow /\ t.deny = s.deny
      /\ t.drop = s.drop
  BY DEF ScanFacts
<1> HIDE DEF t
<1>2. /\ Mappings(t) = Mappings(s)
      /\ \A x : mapping(t, x) = mapping(s, x)
      /\ \A h : BindsOf(t, h) = BindsOf(s, h)
      /\ hostPortsFor(t, p) = hostPortsFor(s, p)
  BY <1>1 DEF Mappings, mapping, BindsOf, hostPortsFor
<1>3. \A h : ClassAt(s, h) \in 0..5 /\ ClassAt(t, h) \in 0..5
  BY <1>1, ClassType DEF Classes, Unknown, Internet
<1>4. ASSUME NEW h
      PROVE  /\ ClassAt(s, h) <= ClassAt(t, h)
             /\ h # q => ClassAt(t, h) = ClassAt(s, h)
  <2> USE DEF Internet, Filtered, Unknown
  <2>1. CASE BindsOf(s, h) # {}
    <3> DEFINE c == Max({bindClass[b] : b \in BindsOf(s, h)})
    <3>1. /\ ClassAt(s, h) = IF c = Internet /\ h \notin s.open THEN Filtered ELSE c
          /\ ClassAt(t, h) = IF c = Internet /\ h \notin t.open THEN Filtered ELSE c
      BY <1>2, <2>1 DEF ClassAt, maxBindClass
    <3> HIDE DEF c
    <3>2. c \in 0..5
      BY <1>3, <3>1
    <3>3. /\ h \in s.open => h \in t.open
          /\ h # q => (h \in t.open <=> h \in s.open)
      BY <1>1
    <3>4. CASE c # Internet
      BY <3>1, <3>2, <3>4
    <3>5. CASE c = Internet /\ h \in s.open
      BY <3>1, <3>3, <3>5
    <3>6. CASE c = Internet /\ h \notin s.open
      BY <3>1, <3>3, <3>6
    <3> QED BY <3>4, <3>5, <3>6
  <2>2. CASE BindsOf(s, h) = {}
    <3>1. /\ ClassAt(s, h) = IF h \in s.open THEN Internet ELSE Filtered
          /\ ClassAt(t, h) = IF h \in t.open THEN Internet ELSE Filtered
      BY <1>1, <1>2, <2>2 DEF ClassAt
    <3> QED BY <1>1, <3>1
  <2> QED BY <2>1, <2>2
<1>5. e1 \in Candidates(s, p) /\ ClassAt(s, e) <= ClassAt(t, e1)
  <2>1. Candidates(t, p) = Candidates(s, p)
    BY <1>2 DEF Candidates
  <2>2. e \in Candidates(s, p) /\ e1 \in Candidates(s, p)
    BY <1>1, <2>1, EffectiveIsWorst
  <2>3. ClassAt(t, e) <= ClassAt(t, e1)
    BY <1>1, <2>1, <2>2, EffectiveIsWorst
  <2>4. ClassAt(s, e) <= ClassAt(t, e)
    BY <1>4
  <2> HIDE DEF e, e1
  <2> QED BY <1>3, <2>2, <2>3, <2>4
<1>6. Mitigated(s, e) <= Mitigated(t, e1)
  <2>1. CASE ClassAt(s, e) < ClassAt(t, e1)
    BY <1>1, <2>1, HigherStaysHigher
  <2>2. CASE ClassAt(s, e) = ClassAt(t, e1) /\ e1 \in t.open
    <3>1. Controls(t, e1) = {}
      BY <2>2 DEF Controls
    <3> QED BY <1>1, <2>2, <3>1, FewerControls
  <2>3. CASE ClassAt(s, e) = ClassAt(t, e1) /\ e1 \notin t.open
    <3>1. e1 # q /\ ClassAt(t, e1) = ClassAt(s, e1)
      BY <1>1, <1>4, <2>3
    <3>2. e = e1
      BY <1>1, <1>2, <1>4, <3>1, StillDecides
    <3>3. Controls(t, e1) \subseteq Controls(s, e)
      <4>1. ClassAt(t, e1) = ClassAt(s, e1)
        BY <3>1
      <4> HIDE DEF e, e1
      <4> QED BY <1>1, <1>2, <3>2, <4>1 DEF Controls, overlayOnly, firewallDrops
    <3> QED BY <1>1, <2>3, <3>3, FewerControls
  <2>4. ClassAt(s, e) \in 0..5 /\ ClassAt(t, e1) \in 0..5
    BY <1>3
  <2> HIDE DEF e, e1
  <2>5. \/ ClassAt(s, e) < ClassAt(t, e1)
        \/ ClassAt(s, e) = ClassAt(t, e1)
    BY <1>5, <2>4
  <2> QED BY <2>1, <2>2, <2>3, <2>5
<1> QED BY <1>6, ClassOfPort DEF t

\* One more socket raises the class of its port only, and if the class stays it takes
\* a control away at most.
LEMMA SocketRaises ==
    ASSUME NEW s \in ScanFacts, NEW h \in Ports, NEW b \in Binds, ~Replaces(s, h, b)
    PROVE  LET t == WithSocket(s, h, b)
           IN /\ ClassAt(s, h) <= ClassAt(t, h)
              /\ ClassAt(s, h) = ClassAt(t, h) => Controls(t, h) \subseteq Controls(s, h)
              /\ \A g : g # h => /\ ClassAt(t, g) = ClassAt(s, g)
                                 /\ Controls(t, g) \subseteq Controls(s, g)
<1> DEFINE t == WithSocket(s, h, b)
<1>1. /\ t \in ScanFacts /\ t.sockets = s.sockets \cup {<<h, b>>}
      /\ t.services = s.services /\ t.wanted = s.wanted /\ t.probed = s.probed
      /\ t.open = s.open /\ t.allow = s.allow /\ t.deny = s.deny /\ t.drop = s.drop
  BY DEF ScanFacts, WithSocket
<1> HIDE DEF t
<1>2. /\ Mappings(t) = Mappings(s)
      /\ \A x : mapping(t, x) = mapping(s, x)
      /\ \A g : g # h => BindsOf(t, g) = BindsOf(s, g)
      /\ BindsOf(t, h) = BindsOf(s, h) \cup {b}
      /\ BindsOf(s, h) \subseteq Binds
  BY <1>1 DEF Mappings, mapping, BindsOf
<1>3. /\ \A g : declaredPublic(t, g) = declaredPublic(s, g)
      /\ BuildIntended(t) = BuildIntended(s)
  BY <1>1, <1>2 DEF declaredPublic, BuildIntended
<1>4. \A g : ClassAt(s, g) \in 0..5 /\ ClassAt(t, g) \in 0..5
  BY <1>1, ClassType DEF Classes, Unknown, Internet
<1>5. \A g : firewallDrops(t, g) => firewallDrops(s, g)
  BY <1>1 DEF firewallDrops
<1>6. ASSUME NEW g, ClassAt(t, g) = ClassAt(s, g), overlayOnly(t, g) => overlayOnly(s, g)
       PROVE  Controls(t, g) \subseteq Controls(s, g)
  <2>1. ASSUME NEW k \in Controls(t, g) PROVE k \in Controls(s, g)
    <3>1. /\ k \in {"overlay", "firewall"} /\ g \notin s.open
          /\ ClassAt(s, g) \notin {Unknown, Localhost}
      BY <1>1, <1>6 DEF Controls
    <3>2. CASE k = "overlay"
      <4>1. overlayOnly(t, g)
        BY <3>2 DEF Controls
      <4> QED BY <1>6, <3>1, <3>2, <4>1 DEF Controls
    <3>3. CASE k = "firewall"
      <4>1. firewallDrops(t, g)
        BY <3>3 DEF Controls
      <4> QED BY <1>5, <3>1, <3>3, <4>1 DEF Controls
    <3> QED BY <3>1, <3>2, <3>3
  <2> QED BY <2>1
<1>7. ASSUME NEW g, g # h
      PROVE  ClassAt(t, g) = ClassAt(s, g) /\ Controls(t, g) \subseteq Controls(s, g)
  <2>1. ClassAt(t, g) = ClassAt(s, g)
    BY <1>1, <1>2, <1>3, <1>7 DEF ClassAt, maxBindClass
  <2>2. overlayOnly(t, g) = overlayOnly(s, g)
    BY <1>2, <1>7 DEF overlayOnly
  <2> QED BY <1>6, <2>1, <2>2
<1>8. CASE BindsOf(s, h) # {}
  <2> DEFINE cs == {bindClass[a] : a \in BindsOf(s, h)}
             ds == {bindClass[a] : a \in BindsOf(t, h)}
  <2>1. /\ cs \in SUBSET Nat /\ ds \in SUBSET Nat /\ cs # {} /\ cs \subseteq ds
        /\ \A c \in ds : c <= 5
    <3>1. \A a \in Binds : bindClass[a] \in 0..5
      BY DEF Binds, bindClass, Unknown, Localhost, Overlay, LAN, Internet
    <3> QED BY <1>2, <1>8, <3>1
  <2>2. ASSUME NEW S \in SUBSET Nat, S # {}, \A c \in S : c <= 5
        PROVE  Max(S) \in S /\ \A y \in S : y <= Max(S)
    <3>1. PICK c \in S : \A d \in S : d <= c
      BY <2>2, Greatest
    <3>2. \E x \in S : \A y \in S : x >= y
      BY <3>1
    <3>3. Max(S) \in S /\ \A y \in S : Max(S) >= y
      BY <3>2 DEF Max
    <3> QED BY <3>3
  <2>3. /\ ClassAt(s, h) = IF Max(cs) = Internet /\ h \notin s.open THEN Filtered ELSE Max(cs)
        /\ ClassAt(t, h) = IF Max(ds) = Internet /\ h \notin s.open THEN Filtered ELSE Max(ds)
    BY <1>1, <1>2, <1>8 DEF ClassAt, maxBindClass
  <2>4. overlayOnly(t, h) => overlayOnly(s, h)
    BY <1>2, <1>8 DEF overlayOnly
  <2> HIDE DEF cs, ds
  <2>5. Max(cs) \in 0..5 /\ Max(ds) \in 0..5 /\ Max(cs) <= Max(ds)
    <3>1. Max(cs) \in cs /\ Max(ds) \in ds /\ \A y \in ds : y <= Max(ds)
      BY <2>1, <2>2
    <3>2. Max(cs) \in ds /\ Max(cs) <= Max(ds)
      BY <2>1, <3>1
    <3>3. \A c \in ds : c \in 0..5
      BY <2>1
    <3> QED BY <3>1, <3>2, <3>3
  <2>6. ClassAt(s, h) <= ClassAt(t, h)
    BY <2>3, <2>5 DEF Internet, Filtered
  <2>7. ClassAt(s, h) = ClassAt(t, h) => Controls(t, h) \subseteq Controls(s, h)
    BY <1>6, <2>4
  <2> QED BY <1>7, <2>6, <2>7 DEF t
<1>9. CASE BindsOf(s, h) = {} /\ s.probed
  <2>1. b = "public" /\ BindsOf(t, h) = {"public"}
    BY <1>2, <1>9 DEF Replaces
  <2>2. {bindClass[a] : a \in BindsOf(t, h)} = {5}
    BY <2>1 DEF bindClass, Binds, Internet
  <2>3. Max({5}) = 5
    BY DEF Max
  <2>4. ClassAt(t, h) = IF h \notin s.open THEN Filtered ELSE Internet
    BY <1>1, <2>1, <2>2, <2>3 DEF ClassAt, maxBindClass, Internet
  <2>5. ClassAt(s, h) = ClassAt(t, h)
    BY <1>9, <2>4 DEF ClassAt
  <2>6. ~overlayOnly(t, h)
    BY <2>1 DEF overlayOnly, bindClass, Binds, Internet, Overlay, Localhost
  <2>7. Controls(t, h) \subseteq Controls(s, h)
    BY <1>6, <2>5, <2>6
  <2> QED BY <1>4, <1>7, <2>5, <2>7 DEF t
<1>10. CASE BindsOf(s, h) = {} /\ ~s.probed
  <2>1. ClassAt(s, h) = 0
    BY <1>10 DEF ClassAt, Replaces, Unknown
  <2>2. ClassAt(s, h) = ClassAt(t, h) => Controls(t, h) = {}
    BY <2>1 DEF Controls, Unknown
  <2> QED BY <1>4, <1>7, <2>1, <2>2 DEF t
<1> QED BY <1>8, <1>9, <1>10 DEF ScanFacts

\* The candidates depend on the mappings only.
LEMMA SameCandidates ==
    ASSUME NEW s, NEW t, NEW p, hostPortsFor(t, p) = hostPortsFor(s, p),
           \A x : mapping(t, x) = mapping(s, x)
    PROVE  Candidates(t, p) = Candidates(s, p)
<1> DEFINE ms == hostPortsFor(s, p)
<1>1. {mapping(t, x).host : x \in ms} = {mapping(s, x).host : x \in ms}
  <2> HIDE DEF ms
  <2> QED OBVIOUS
<1> QED BY <1>1 DEF Candidates

\* One more socket: a port that now decides is more exposed than the one that did.
LEMMA OneMoreSocket ==
    ASSUME NEW s \in ScanFacts, NEW h \in Ports, NEW b \in Binds, NEW p \in Ports,
           ~Replaces(s, h, b), ~DrawsLevel(s, h, b)
    PROVE  classifyOne(s, p).class <= classifyOne(WithSocket(s, h, b), p).class
<1> DEFINE t  == WithSocket(s, h, b)
           e  == Effective(s, p)
           e1 == Effective(t, p)
<1>1. t \in ScanFacts /\ t.services = s.services
  BY DEF ScanFacts, WithSocket
<1>2. /\ \A g : ClassAt(s, g) \in 0..5 /\ ClassAt(t, g) \in 0..5
      /\ \A x : mapping(t, x) = mapping(s, x)
      /\ hostPortsFor(t, p) = hostPortsFor(s, p)
  BY <1>1, ClassType DEF Classes, Unknown, Internet, Mappings, mapping, hostPortsFor
<1>3. /\ ClassAt(s, h) <= ClassAt(t, h)
      /\ ClassAt(s, h) = ClassAt(t, h) => Controls(t, h) \subseteq Controls(s, h)
      /\ \A g : g # h => ClassAt(t, g) = ClassAt(s, g) /\ Controls(t, g) \subseteq Controls(s, g)
  BY SocketRaises
<1>4. \A g : ClassAt(s, g) <= ClassAt(t, g)
  <2> HIDE DEF t
  <2>1. ASSUME NEW g PROVE ClassAt(s, g) <= ClassAt(t, g)
    <3>1. CASE g = h
      BY <1>3, <3>1
    <3>2. CASE g # h
      <4>1. ClassAt(t, g) = ClassAt(s, g) /\ ClassAt(s, g) \in 0..5
        BY <1>2, <1>3, <3>2
      <4> QED BY <4>1
    <3> QED BY <3>1, <3>2
  <2> QED BY <2>1
<1>5. e \in Candidates(s, p) /\ e1 \in Candidates(s, p) /\ ClassAt(s, e) <= ClassAt(t, e1)
  <2>1. Candidates(t, p) = Candidates(s, p)
    BY <1>2, SameCandidates
  <2>2. e \in Candidates(s, p) /\ e1 \in Candidates(s, p)
    BY <1>1, <2>1, EffectiveIsWorst
  <2>3. ClassAt(t, e) <= ClassAt(t, e1)
    BY <1>1, <2>1, <2>2, EffectiveIsWorst
  <2>4. ClassAt(s, e) <= ClassAt(t, e)
    BY <1>4
  <2>5. ClassAt(s, e) \in 0..5 /\ ClassAt(t, e) \in 0..5 /\ ClassAt(t, e1) \in 0..5
    BY <1>2
  <2> HIDE DEF e, e1, t
  <2> QED BY <2>2, <2>3, <2>4, <2>5
<1>6. Mitigated(s, e) <= Mitigated(t, e1)
  <2>1. CASE ClassAt(s, e) < ClassAt(t, e1)
    BY <1>1, <2>1, HigherStaysHigher
  <2>2. CASE ClassAt(s, e) = ClassAt(t, e1) /\ ClassAt(t, e1) = ClassAt(s, e1)
    <3>1. e = e1
      BY <1>1, <1>2, <1>4, <2>2, StillDecides
    <3>2. Controls(t, e1) \subseteq Controls(s, e)
      <4> HIDE DEF e, e1, t
      <4> QED BY <1>3, <2>2, <3>1
    <3> QED BY <1>1, <2>2, <3>2, FewerControls
  <2>3. CASE ClassAt(s, e) = ClassAt(t, e1) /\ ClassAt(t, e1) # ClassAt(s, e1)
    <3>1. e1 = h /\ e # h
      <4> HIDE DEF e, e1, t
      <4> QED BY <1>3, <2>3
    <3>2. DrawsLevel(s, h, b)
      <4>1. h \in Candidates(s, p) /\ e \in Candidates(s, p) \ {h}
        BY <1>5, <3>1
      <4>2. ClassAt(t, h) # ClassAt(s, h) /\ ClassAt(s, e) = ClassAt(t, h)
        BY <2>3, <3>1
      <4> HIDE DEF e, e1
      <4> QED BY <4>1, <4>2 DEF DrawsLevel
    <3> QED BY <3>2
  <2>4. ClassAt(s, e) \in 0..5 /\ ClassAt(t, e1) \in 0..5
    BY <1>2
  <2> HIDE DEF e, e1, t
  <2>5. \/ ClassAt(s, e) < ClassAt(t, e1)
        \/ ClassAt(s, e) = ClassAt(t, e1)
    BY <1>5, <2>4
  <2> QED BY <2>1, <2>2, <2>3, <2>5
<1> QED BY <1>6, ClassOfPort

\* One more mapping for a container port that is published comes last in the file: it
\* decides only when its port is more exposed than the others.
LEMMA OneMoreMapping ==
    ASSUME NEW s \in ScanFacts, NEW n \in PortMapping, NEW p,
           hostPortsFor(s, n.container) # {},
           (n.all /\ ~declaredPublic(s, n.host)) =>
               \A x \in Mappings(s) : mapping(s, x).host # n.host
    PROVE  LET t == [s EXCEPT !.services = Append(@, [cves |-> {}, ports |-> <<n>>])]
           IN classifyOne(s, p).class <= classifyOne(t, p).class
<1> DEFINE t    == [s EXCEPT !.services = Append(@, [cves |-> {}, ports |-> <<n>>])]
           last == <<Len(s.services) + 1, 1>>
           e    == Effective(s, p)
           e1   == Effective(t, p)
<1>1. /\ t \in ScanFacts /\ t.open = s.open
      /\ t.services = Append(s.services, [cves |-> {}, ports |-> <<n>>])
      /\ t.wanted = s.wanted /\ t.probed = s.probed
      /\ t.sockets = s.sockets /\ t.allow = s.allow /\ t.deny = s.deny
      /\ t.drop = s.drop
  <2>1. s.services \in Seq(Service) /\ [cves |-> {}, ports |-> <<n>>] \in Service
    BY DEF ScanFacts, Service
  <2>2. Append(s.services, [cves |-> {}, ports |-> <<n>>]) \in Seq(Service)
    BY <2>1
  <2> QED BY <2>2 DEF ScanFacts
<1> HIDE DEF t
<1>2. /\ Mappings(t) = Mappings(s) \cup {last}
      /\ \A x \in Mappings(s) : mapping(t, x) = mapping(s, x)
      /\ mapping(t, last) = n
  <2> DEFINE L == Len(s.services)
  <2>1. L \in Nat /\ DOMAIN s.services = 1..L /\ s.services \in Seq(Service)
    BY DEF ScanFacts
  <2>2. /\ DOMAIN t.services = DOMAIN s.services \cup {L + 1}
        /\ \A i \in DOMAIN s.services : t.services[i] = s.services[i]
        /\ t.services[L + 1].ports = <<n>> /\ L + 1 \notin DOMAIN s.services
    BY <1>1, <2>1
  <2>3. ASSUME NEW x \in Mappings(s)
        PROVE  x \in Mappings(t) /\ mapping(t, x) = mapping(s, x)
    <3>1. PICK i \in DOMAIN s.services :
              \E j \in DOMAIN s.services[i].ports : x = <<i, j>>
      BY DEF Mappings
    <3> QED BY <2>2, <3>1 DEF Mappings, mapping
  <2>4. DOMAIN <<n>> = {1} /\ <<n>>[1] = n
    OBVIOUS
  <2>5. last \in Mappings(t) /\ mapping(t, last) = n
    BY <2>2, <2>4 DEF Mappings, mapping
  <2>6. ASSUME NEW x \in Mappings(t), x # last
        PROVE  x \in Mappings(s)
    <3>1. PICK i \in DOMAIN t.services :
              \E j \in DOMAIN t.services[i].ports : x = <<i, j>>
      BY DEF Mappings
    <3>2. PICK j \in DOMAIN t.services[i].ports : x = <<i, j>>
      BY <3>1
    <3>3. i \in DOMAIN s.services
      BY <2>2, <2>4, <2>6, <3>2
    <3> QED BY <2>2, <3>2, <3>3 DEF Mappings
  <2> QED BY <2>3, <2>5, <2>6
<1>3. \A h : declaredPublic(t, h) <=> declaredPublic(s, h) \/ (n.all /\ n.host = h)
  BY <1>2 DEF declaredPublic
<1>4. /\ \A h : BindsOf(t, h) = BindsOf(s, h)
      /\ \A h : ClassAt(s, h) \in 0..5 /\ ClassAt(t, h) \in 0..5
  BY <1>1, ClassType DEF BindsOf, Classes, Unknown, Internet
<1>5. ASSUME NEW h
      PROVE  /\ ClassAt(s, h) <= ClassAt(t, h)
             /\ (declaredPublic(t, h) <=> declaredPublic(s, h))
                    => ClassAt(t, h) = ClassAt(s, h)
  <2>1. CASE BindsOf(s, h) # {} \/ s.probed
    <3>1. maxBindClass(t, h) = maxBindClass(s, h)
      <4>1. BindsOf(t, h) = BindsOf(s, h) /\ t.open = s.open
        BY <1>1, <1>4
      <4> QED BY <4>1 DEF maxBindClass
    <3>2. ClassAt(t, h) = ClassAt(s, h)
      BY <1>1, <1>4, <2>1, <3>1 DEF ClassAt
    <3> QED BY <1>4, <3>2
  <2>2. CASE BindsOf(s, h) = {} /\ ~s.probed
    <3>1. declaredPublic(s, h) => declaredPublic(t, h)
      BY <1>3
    <3>2. (declaredPublic(t, h) <=> declaredPublic(s, h))
              => (h \in BuildIntended(t) <=> h \in BuildIntended(s))
      BY <1>1 DEF BuildIntended
    <3>3. /\ ClassAt(s, h) = IF ~declaredPublic(s, h) THEN Unknown
                             ELSE IF h \in BuildIntended(s) THEN Filtered ELSE Internet
          /\ ClassAt(t, h) = IF ~declaredPublic(t, h) THEN Unknown
                             ELSE IF h \in BuildIntended(t) THEN Filtered ELSE Internet
      BY <1>1, <1>4, <2>2 DEF ClassAt
    <3> QED BY <3>1, <3>2, <3>3 DEF Unknown, Filtered, Internet
  <2> QED BY <2>1, <2>2
<1>6. \A x \in Mappings(s) :
          ClassAt(t, mapping(s, x).host) = ClassAt(s, mapping(s, x).host)
  <2>1. \A x \in Mappings(s) : declaredPublic(t, mapping(s, x).host)
                                   <=> declaredPublic(s, mapping(s, x).host)
    BY <1>3
  <2> QED BY <1>5, <2>1
<1>7. \A h : ClassAt(t, h) = ClassAt(s, h) => Controls(t, h) \subseteq Controls(s, h)
  BY <1>1, <1>4 DEF Controls, overlayOnly, firewallDrops
<1>8. /\ hostPortsFor(s, p) \subseteq hostPortsFor(t, p)
      /\ hostPortsFor(t, p) \subseteq hostPortsFor(s, p) \cup {last}
      /\ hostPortsFor(s, p) = {} => hostPortsFor(t, p) = {}
  <2>1. last \in hostPortsFor(t, p) => p = n.container
    BY <1>2 DEF hostPortsFor
  <2> QED BY <1>2, <2>1 DEF hostPortsFor
<1>9. e1 = e \/ ClassAt(s, e) < ClassAt(t, e1)
  <2>1. CASE hostPortsFor(s, p) = {}
    BY <1>8, <2>1 DEF Effective
  <2>2. CASE hostPortsFor(s, p) # {}
    <3> DEFINE Class(y) == ClassAt(s, mapping(s, y).host)
    <3>1. PICK x \in hostPortsFor(s, p) :
              /\ e = mapping(s, x).host
              /\ \A y \in hostPortsFor(s, p) :
                    Class(y) <= Class(x) /\ (Class(y) = Class(x) => InFileOrder(x, y))
      BY <2>2, EffectiveMapping
    <3>2. /\ x \in Mappings(s) /\ x \in hostPortsFor(t, p)
          /\ mapping(t, x) = mapping(s, x) /\ ClassAt(t, e) = ClassAt(s, e)
      BY <1>2, <1>6, <1>8, <3>1 DEF hostPortsFor
    <3>3. CASE last \in hostPortsFor(t, p) /\ ClassAt(s, e) < ClassAt(t, n.host)
      <4>1. n.host \in Candidates(t, p)
        BY <1>2, <3>3 DEF Candidates
      <4>2. ClassAt(t, n.host) <= ClassAt(t, e1)
        BY <1>1, <4>1, EffectiveIsWorst
      <4> HIDE DEF e, e1
      <4> QED BY <1>4, <3>3, <4>2
    <3>4. CASE ~(last \in hostPortsFor(t, p) /\ ClassAt(s, e) < ClassAt(t, n.host))
      <4>1. ASSUME NEW y \in hostPortsFor(t, p)
            PROVE  /\ ClassAt(t, mapping(t, y).host) <= ClassAt(t, mapping(t, x).host)
                   /\ ClassAt(t, mapping(t, y).host) = ClassAt(t, mapping(t, x).host)
                         => InFileOrder(x, y)
        <5>1. CASE y = last
          <6>1. ClassAt(t, n.host) <= ClassAt(s, e)
            <7> HIDE DEF e
            <7> QED BY <1>4, <3>4, <5>1
          <6>2. InFileOrder(x, last)
            <7>1. x[1] \in 1..Len(s.services) /\ Len(s.services) \in Nat
              BY <3>2, MappingsType DEF ScanFacts
            <7> QED BY <7>1 DEF InFileOrder
          <6> QED BY <1>2, <3>1, <3>2, <5>1, <6>1, <6>2
        <5>2. CASE y # last
          <6>1. y \in hostPortsFor(s, p) /\ y \in Mappings(s)
            BY <1>8, <5>2 DEF hostPortsFor
          <6>2. /\ mapping(t, y) = mapping(s, y)
                /\ ClassAt(t, mapping(s, y).host) = Class(y)
            BY <1>2, <1>6, <6>1
          <6>3. ClassAt(t, mapping(t, x).host) = Class(x)
            BY <3>1, <3>2
          <6> QED BY <3>1, <6>1, <6>2, <6>3
        <5> QED BY <5>1, <5>2
      <4>2. e1 = mapping(t, x).host
        <5> HIDE DEF e, e1
        <5> QED BY <1>1, <3>2, <4>1, EffectiveIsThat DEF e1
      <4> QED BY <3>1, <3>2, <4>2
    <3> QED BY <3>3, <3>4
  <2> QED BY <2>1, <2>2
<1>10. Mitigated(s, e) <= Mitigated(t, e1)
  <2>1. CASE ClassAt(s, e) < ClassAt(t, e1)
    BY <1>1, <2>1, HigherStaysHigher
  <2>2. CASE ClassAt(s, e) = ClassAt(t, e1) /\ e1 = e
    <3>1. Controls(t, e1) \subseteq Controls(s, e)
      <4> HIDE DEF e, e1
      <4> QED BY <1>7, <2>2
    <3> QED BY <1>1, <2>2, <3>1, FewerControls
  <2>3. CASE e1 = e /\ ClassAt(s, e) # ClassAt(t, e1)
    <3>1. ClassAt(s, e) < ClassAt(t, e1)
      <4>1. ClassAt(s, e) <= ClassAt(t, e) /\ ClassAt(s, e) \in 0..5 /\ ClassAt(t, e) \in 0..5
        BY <1>4, <1>5
      <4> HIDE DEF e, e1
      <4> QED BY <2>3, <4>1
    <3> QED BY <1>1, <3>1, HigherStaysHigher
  <2> HIDE DEF e, e1
  <2> QED BY <1>9, <2>1, <2>2, <2>3
<1> QED BY <1>10, ClassOfPort DEF t

-----------------------------------------------------------------------------
(***************************************************************************)
(* What the checks may report.                                             *)
(***************************************************************************)
LEMMA FindingType ==
    ASSUME NEW i \in DOMAIN Entry
    PROVE  /\ Finding(i) \in Unclassified
           /\ Pass(i) \in Unclassified
           /\ notAssessed(i) \in Unclassified
           /\ i \in {"EXP001", "EXP002", "SUP003", "SUP004", "SVC010"} =>
                 \A p \in Ports \cup {0} :
                    /\ [Finding(i) EXCEPT !.port = p] \in Unclassified
                    /\ \A c \in CVEs :
                          [Finding(i) EXCEPT !.cve = c, !.port = p] \in Unclassified
           /\ \A c \in CVEs :
                 [Finding(i) EXCEPT !.cve = c, !.confidence = "medium"] \in Unclassified
<1>1. ToSet(GroupOrder) = {"Exposure", "SupplyChain", "Service", "AIAgent", "MCP"}
  BY DEF ToSet, GroupOrder
<1>2. /\ Entry[i].group \in ToSet(GroupOrder) /\ Entry[i].severity \in Severities
      /\ Entry[i].impact \in Nat /\ Entry[i].fatal \in BOOLEAN
      /\ i \in {"EXP001", "EXP002", "SUP003", "SUP004", "SVC010"} =>
            Entry[i].group \notin {"AIAgent", "MCP"}
  <2>1. i \in {"EXP001", "EXP002", "SUP003", "SUP004", "SVC010", "AGT001", "MCP004", "EXP003"}
    BY DEF Entry
  <2>2. CASE i = "EXP001"
    BY <1>1, <2>2 DEF Entry, Severities
  <2>3. CASE i = "EXP002"
    BY <1>1, <2>3 DEF Entry, Severities
  <2>4. CASE i = "SUP003"
    BY <1>1, <2>4 DEF Entry, Severities
  <2>5. CASE i = "SUP004"
    BY <1>1, <2>5 DEF Entry, Severities
  <2>6. CASE i = "SVC010"
    BY <1>1, <2>6 DEF Entry, Severities
  <2>7. CASE i = "AGT001"
    BY <1>1, <2>7 DEF Entry, Severities
  <2>8. CASE i = "MCP004"
    BY <1>1, <2>8 DEF Entry, Severities
  <2>9. CASE i = "EXP003"
    BY <1>1, <2>9 DEF Entry, Severities
  <2> QED BY <2>1, <2>2, <2>3, <2>4, <2>5, <2>6, <2>7, <2>8, <2>9
<1>3. DOMAIN ConfidenceMultiplier = {"high", "medium", "low"}
  BY DEF ConfidenceMultiplier
<1>4. Unknown \in Classes
  BY DEF Unknown, Classes, Internet
<1> HIDE DEF Entry
<1> QED BY <1>2, <1>3, <1>4 DEF Finding, Pass, notAssessed, Unclassified, FindingRecord,
              AIMCP, Severities

LEMMA OnPortsType ==
    ASSUME NEW i \in {"EXP001", "EXP002"}, NEW ports \in SUBSET Ports
    PROVE  OnPorts(i, ports) \subseteq Seq(Unclassified)
<1>1. IsFiniteSet(ports) /\ Cardinality(ports) \in Nat
  BY PortsAssumption, FS_Subset, FS_CardinalityType
<1>2. i \in DOMAIN Entry
  BY DEF Entry
<1>3. ASSUME NEW q \in SetToSeqs(ports)
      PROVE  [k \in DOMAIN q |-> [Finding(i) EXCEPT !.port = q[k]]] \in Seq(Unclassified)
  <2>1. q \in [1..Cardinality(ports) -> ports]
    BY DEF SetToSeqs
  <2>2. \A k \in 1..Cardinality(ports) :
            [Finding(i) EXCEPT !.port = q[k]] \in Unclassified
    BY <1>2, <2>1, FindingType
  <2> QED BY <1>1, <2>1, <2>2
<1>4. <<Pass(i)>> \in Seq(Unclassified)
  <2>1. Pass(i) \in Unclassified
    BY <1>2, FindingType
  <2> QED BY <2>1
<1> QED BY <1>3, <1>4 DEF OnPorts, OrPass

\* The most exposed published port of a service is one of its ports, or none.
LEMMA MostExposedType ==
    ASSUME NEW v \in Service
    PROVE  mostExposedHostPort(v) \in Ports \cup {0}
<1> DEFINE Hs(ms) == {m.host : m \in ms} \ {0}
           all    == Hs({m \in ToSet(v.ports) : m.all})
           any    == Hs(ToSet(v.ports))
<1>1. ToSet(v.ports) \subseteq PortMapping
  BY DEF ToSet, Service
<1>2. all \in SUBSET Ports /\ any \in SUBSET Ports
  BY <1>1 DEF PortMapping
<1>3. ASSUME NEW S \in SUBSET Ports, S # {}
      PROVE  Max(S) \in Ports
  <2>1. S \in SUBSET Nat /\ IsFiniteSet(S)
    BY PortsAssumption, FS_Subset
  <2>2. PICK m \in S : \A k \in S : k <= m
    BY <1>3, <2>1, FiniteGreatest
  <2>3. \E x \in S : \A y \in S : x >= y
    BY <2>1, <2>2
  <2> QED BY <2>3 DEF Max
<1>4. mostExposedHostPort(v) =
          IF all # {} THEN Max(all) ELSE IF any # {} THEN Max(any) ELSE 0
  BY DEF mostExposedHostPort
<1> HIDE DEF all, any
<1> QED BY <1>2, <1>3, <1>4

\* The likeliest of some CVEs is one of them.
LEMMA LikeliestType ==
    ASSUME NEW cs \in SUBSET CVEs, cs # {}
    PROVE  Likeliest(cs) \in cs
<1> DEFINE ps == {PercentileOf(c) : c \in cs}
<1>1. ps \in SUBSET Nat /\ ps # {} /\ \A n \in ps : n <= 100
  <2>1. \A c \in cs : PercentileOf(c) \in 0..100
    BY FeedAssumption DEF PercentileOf
  <2> QED BY <2>1
<1>2. PICK n \in ps : \A k \in ps : k <= n
  <2> HIDE DEF ps
  <2> QED BY <1>1, Greatest
<1>3. \E c \in cs : \A d \in cs : PercentileOf(d) <= PercentileOf(c)
  BY <1>2
<1> QED BY <1>3 DEF Likeliest

\* Some elements of a sequence, in a total order, are a sequence of them.
LEMMA InOrderType ==
    ASSUME NEW S, NEW s \in Seq(S), NEW P \in SUBSET DOMAIN s, NEW before,
           \A i \in P : <<i, i>> \notin before,
           \A i, j, k \in P : <<i, j>> \in before /\ <<j, k>> \in before
                                => <<i, k>> \in before,
           \A i, j \in P : i # j => <<i, j>> \in before \/ <<j, i>> \in before
    PROVE  /\ InOrder(s, P, before) \in Seq(S)
           /\ \A k \in DOMAIN InOrder(s, P, before) :
                 \E i \in P : InOrder(s, P, before)[k] = s[i]
<1>1. IsFiniteSet(P) /\ Cardinality(P) \in Nat
  <2>1. IsFiniteSet(1..Len(s))
    BY FS_Interval
  <2> QED BY <2>1, FS_Subset, FS_CardinalityType
<1> DEFINE At(k) == CHOOSE i \in P : Rank(P, before, i) = k - 1
<1>2. ASSUME NEW k \in 1..Cardinality(P)
      PROVE  At(k) \in P
  <2>1. \E i \in P : Rank(P, before, i) = k - 1
    BY <1>1, EveryRankIsTaken
  <2> QED BY <2>1
<1>3. InOrder(s, P, before) = [k \in 1..Cardinality(P) |-> s[At(k)]]
  BY DEF InOrder
<1> HIDE DEF At
<1>4. \A k \in 1..Cardinality(P) : s[At(k)] \in S
  BY <1>2
<1> QED BY <1>1, <1>2, <1>3, <1>4

LEMMA AffectedType ==
    ASSUME NEW s \in ScanFacts, NEW cs
    PROVE  /\ Affected(s, cs) \in Seq(Service)
           /\ \A k \in DOMAIN Affected(s, cs) : Affected(s, cs)[k].cves \cap cs # {}
<1> DEFINE P      == {i \in DOMAIN s.services : s.services[i].cves \cap cs # {}}
           before == {x \in P \X P : x[1] < x[2]}
<1>1. s.services \in Seq(Service)
  BY DEF ScanFacts
<1>2. P \in SUBSET DOMAIN s.services /\ P \in SUBSET Nat
  BY <1>1
<1>3. \A i, j \in P : <<i, j>> \in before <=> i < j
  OBVIOUS
<1>4. \A i \in P : s.services[i].cves \cap cs # {}
  OBVIOUS
<1>5. Affected(s, cs) = InOrder(s.services, P, before)
  BY DEF Affected
<1> HIDE DEF P, before
<1>6. /\ \A i \in P : <<i, i>> \notin before
      /\ \A i, j, k \in P : <<i, j>> \in before /\ <<j, k>> \in before
                              => <<i, k>> \in before
      /\ \A i, j \in P : i # j => <<i, j>> \in before \/ <<j, i>> \in before
  BY <1>2, <1>3
<1>7. /\ InOrder(s.services, P, before) \in Seq(Service)
      /\ \A k \in DOMAIN InOrder(s.services, P, before) :
            \E i \in P : InOrder(s.services, P, before)[k] = s.services[i]
  BY <1>1, <1>2, <1>6, InOrderType
<1> QED BY <1>4, <1>5, <1>7

LEMMA ChecksType ==
    ASSUME NEW s \in ScanFacts
    PROVE  /\ EXP001(s) \subseteq Seq(Unclassified)
           /\ EXP002(s) \subseteq Seq(Unclassified)
           /\ SUP003(s) \in Seq(Unclassified)
           /\ SUP004(s) \in Seq(Unclassified)
           /\ SVC010(s) \in Seq(Unclassified)
<1>1. {"EXP001", "EXP002", "SUP003", "SUP004", "SVC010"} \subseteq DOMAIN Entry
  BY DEF Entry
<1>2. <<>> \in Seq(Unclassified)
  OBVIOUS
<1>3. EXP001(s) \subseteq Seq(Unclassified) /\ EXP002(s) \subseteq Seq(Unclassified)
  <2>1. s.open \in SUBSET Ports
    BY DEF ScanFacts
  <2>2. /\ (s.open \cap Sensitive) \ BuildIntended(s) \in SUBSET Ports
        /\ {p \in s.open \ (BuildIntended(s) \cup Sensitive \cup Web) :
               ~declaredPublic(s, p)} \in SUBSET Ports
    BY <2>1
  <2>3. OnPorts("EXP001", (s.open \cap Sensitive) \ BuildIntended(s))
            \subseteq Seq(Unclassified)
    BY <2>2, OnPortsType
  <2>4. OnPorts("EXP002", {p \in s.open \ (BuildIntended(s) \cup Sensitive \cup Web) :
                               ~declaredPublic(s, p)}) \subseteq Seq(Unclassified)
    BY <2>2, OnPortsType
  <2> QED BY <1>2, <2>3, <2>4 DEF EXP001, EXP002
<1>4. SUP003(s) \in Seq(Unclassified)
  <2> DEFINE hit == Affected(s, KEV)
             new == [k \in DOMAIN hit |->
                       [Finding("SUP003") EXCEPT !.cve  = Likeliest(hit[k].cves \cap KEV),
                                                 !.port = mostExposedHostPort(hit[k])]]
  <2>1. hit \in Seq(Service) /\ \A k \in DOMAIN hit : hit[k].cves \cap KEV # {}
    BY AffectedType
  <2> HIDE DEF hit
  <2>2. ASSUME NEW k \in DOMAIN hit
        PROVE  /\ Likeliest(hit[k].cves \cap KEV) \in CVEs
               /\ mostExposedHostPort(hit[k]) \in Ports \cup {0}
    <3>1. hit[k] \in Service /\ hit[k].cves \cap KEV # {}
      BY <2>1
    <3>2. hit[k].cves \cap KEV \in SUBSET CVEs
      BY <3>1 DEF Service
    <3> QED BY <3>1, <3>2, LikeliestType, MostExposedType
  <2>3. new \in Seq(Unclassified)
    <3>1. ASSUME NEW k \in 1..Len(hit)
          PROVE  new[k] \in Unclassified
      <4>1. k \in DOMAIN hit
        BY <2>1
      <4> QED BY <1>1, <2>2, <4>1, FindingType
    <3>2. DOMAIN new = 1..Len(hit) /\ Len(hit) \in Nat
      BY <2>1
    <3> HIDE DEF new
    <3>3. new = [k \in 1..Len(hit) |-> new[k]]
      BY <2>1, <3>2 DEF new
    <3> QED BY <3>1, <3>2, <3>3
  <2>4. /\ <<Pass("SUP003")>> \in Seq(Unclassified)
        /\ <<notAssessed("SUP003")>> \in Seq(Unclassified)
    <3>1. Pass("SUP003") \in Unclassified /\ notAssessed("SUP003") \in Unclassified
      BY <1>1, FindingType
    <3> QED BY <3>1
  <2>5. SUP003(s) = IF s.services = <<>> THEN <<notAssessed("SUP003")>>
                    ELSE OrPass("SUP003", new)
    BY DEF SUP003, hit
  <2> HIDE DEF new
  <2> QED BY <2>3, <2>4, <2>5 DEF OrPass
<1>5. SUP004(s) \in Seq(Unclassified)
  <2> DEFINE hit == Affected(s, Likely)
             new == [k \in DOMAIN hit |->
                       [Finding("SUP004") EXCEPT !.cve = Likeliest(hit[k].cves \cap Likely),
                                                 !.confidence = "medium"]]
  <2>1. hit \in Seq(Service) /\ \A k \in DOMAIN hit : hit[k].cves \cap Likely # {}
    BY AffectedType
  <2> HIDE DEF hit
  <2>2. ASSUME NEW k \in DOMAIN hit
        PROVE  Likeliest(hit[k].cves \cap Likely) \in CVEs
    <3>1. hit[k] \in Service /\ hit[k].cves \cap Likely # {}
      BY <2>1
    <3>2. hit[k].cves \cap Likely \in SUBSET CVEs
      BY <3>1 DEF Service
    <3> QED BY <3>1, <3>2, LikeliestType
  <2>3. new \in Seq(Unclassified)
    <3>1. ASSUME NEW k \in 1..Len(hit)
          PROVE  new[k] \in Unclassified
      <4>1. k \in DOMAIN hit
        BY <2>1
      <4> QED BY <1>1, <2>2, <4>1, FindingType
    <3>2. DOMAIN new = 1..Len(hit) /\ Len(hit) \in Nat
      BY <2>1
    <3> HIDE DEF new
    <3>3. new = [k \in 1..Len(hit) |-> new[k]]
      BY <2>1, <3>2 DEF new
    <3> QED BY <3>1, <3>2, <3>3
  <2>4. /\ <<Pass("SUP004")>> \in Seq(Unclassified)
        /\ <<notAssessed("SUP004")>> \in Seq(Unclassified)
    <3>1. Pass("SUP004") \in Unclassified /\ notAssessed("SUP004") \in Unclassified
      BY <1>1, FindingType
    <3> QED BY <3>1
  <2>5. SUP004(s) = IF s.services = <<>> THEN <<notAssessed("SUP004")>>
                    ELSE OrPass("SUP004", new)
    BY DEF SUP004, hit
  <2> HIDE DEF new
  <2> QED BY <2>3, <2>4, <2>5 DEF OrPass
<1>6. SVC010(s) \in Seq(Unclassified)
  <2>1. s.arr \in {"absent", "on", "off"} /\ s.arrPort \in Ports \cup {0}
    BY DEF ScanFacts
  <2>2. /\ notAssessed("SVC010") \in Unclassified /\ Pass("SVC010") \in Unclassified
        /\ [Finding("SVC010") EXCEPT !.port = s.arrPort] \in Unclassified
    BY <1>1, <2>1, FindingType
  <2> QED BY <2>1, <2>2 DEF SVC010
<1> QED BY <1>3, <1>4, <1>5, <1>6

-----------------------------------------------------------------------------
(***************************************************************************)
(* The pipeline.                                                           *)
(***************************************************************************)
Stages == {"parse", "probe", "collect", "checks", "sort", "classify", "score",
           "done", "failed"}

TypeOK ==
    /\ stage \in Stages
    /\ sctx \in ScanFacts
    /\ findings \in Seq(FindingRecord)
    /\ result.rating \in Grades \cup {"none"}

\* What each stage leaves for the next ones: a port found open was looked for, the
\* checks leave the class of what names a port to Classify, and from then on the list
\* of findings and the result are what the stages computed.
PipelineInv ==
    /\ TypeOK
    /\ sctx.open # {} => sctx.probed
    /\ stage \in {"sort", "classify"} => findings \in Seq(Unclassified)
    /\ stage \in {"score", "done"} =>
          \A i \in DOMAIN findings :
             \E f \in Unclassified : findings[i] = ClassifyFinding(f)
    /\ stage = "done" => result = ComputeV2(findings)

LEMMA SortedType ==
    ASSUME NEW fs \in Seq(Unclassified)
    PROVE  Sorted(fs) \in Seq(Unclassified)
<1> DEFINE D      == DOMAIN fs
           sev(i) == SevRank[fs[i].severity]
           chk(i) == CheckRank[fs[i].id]
           less(i, j) == sev(i) < sev(j) \/ (sev(i) = sev(j) /\ chk(i) < chk(j))
           before == {x \in D \X D : \/ SortsBefore(fs[x[1]], fs[x[2]])
                                     \/ ~SortsBefore(fs[x[2]], fs[x[1]]) /\ x[1] < x[2]}
<1>1. ASSUME NEW i \in D
      PROVE  sev(i) \in Nat /\ chk(i) \in Nat /\ fs[i].severity \in Severities /\ i \in Nat
  <2>1. fs[i] \in FindingRecord
    BY DEF Unclassified
  <2>2. fs[i].severity \in Severities /\ fs[i].id \in DOMAIN Entry
    BY <2>1 DEF FindingRecord
  <2>3. sev(i) \in Nat
    BY <2>2 DEF Severities, SevRank
  <2>4. chk(i) \in Nat
    BY <2>2 DEF Entry, CheckRank
  <2> QED BY <2>2, <2>3, <2>4
<1>2. ASSUME NEW i \in D, NEW j \in D
      PROVE  SortsBefore(fs[i], fs[j]) <=> less(i, j)
  <2>1. fs[i].severity = fs[j].severity <=> sev(i) = sev(j)
    BY <1>1 DEF Severities, SevRank
  <2> QED BY <2>1 DEF SortsBefore
<1>3. \A i, j \in D :
          <<i, j>> \in before <=> (less(i, j) \/ (~less(j, i) /\ i < j))
  BY <1>2
<1>4. Sorted(fs) = InOrder(fs, D, before)
  BY DEF Sorted
<1> HIDE DEF sev, chk, before, D
<1>5. \A i \in D : <<i, i>> \notin before
  BY <1>1, <1>3
<1>6. ASSUME NEW i \in D, NEW j \in D, NEW k \in D,
             <<i, j>> \in before, <<j, k>> \in before
      PROVE  <<i, k>> \in before
  <2>1. /\ less(i, j) \/ (~less(j, i) /\ i < j)
        /\ less(j, k) \/ (~less(k, j) /\ j < k)
    BY <1>3, <1>6
  <2>2. less(i, k) \/ (~less(k, i) /\ i < k)
    BY <1>1, <2>1
  <2> QED BY <1>3, <2>2
<1>7. \A i, j \in D : i # j => <<i, j>> \in before \/ <<j, i>> \in before
  BY <1>1, <1>3
<1>8. InOrder(fs, D, before) \in Seq(Unclassified)
  BY <1>5, <1>6, <1>7, InOrderType DEF D
<1> QED BY <1>4, <1>8

LEMMA ClassifiedType ==
    ASSUME sctx \in ScanFacts, NEW f \in Unclassified
    PROVE  ClassifyFinding(f) \in FindingRecord
<1> DEFINE c == classifyOne(sctx, f.port)
           h == Effective(sctx, f.port)
<1>1. ClassAt(sctx, h) \in Classes /\ Controls(sctx, h) \in SUBSET AllControls
  BY ClassType, BothControls
<1>2. c.class \in Classes /\ c.mitigations \in SUBSET {"overlay", "firewall"}
  BY <1>1, ControlsLower DEF classifyOne, AllControls
<1>3. f \in FindingRecord
  BY DEF Unclassified
<1> HIDE DEF c
<1>4. [f EXCEPT !.class = c.class, !.mitigations = c.mitigations] \in FindingRecord
  BY <1>2, <1>3 DEF FindingRecord
<1> QED BY <1>3, <1>4 DEF ClassifyFinding, c

LEMMA RatingType ==
    ASSUME NEW fs
    PROVE  ComputeV2(fs).rating \in Grades
<1>1. \A n : band(n) \in Grades
  BY DEF band, Grades
<1>2. \A c : computeCap(c).grade \in Grades
  BY DEF computeCap, NoCap, Grades
<1> QED BY <1>1, <1>2 DEF ComputeV2, worst

LEMMA PipelineInit == Init => PipelineInv
<1> SUFFICES ASSUME Init PROVE PipelineInv
  OBVIOUS
<1>1. NoFacts \in ScanFacts /\ NoFacts.open = {}
  BY DEF NoFacts, ScanFacts
<1>2. NoResult.rating = "none"
  BY DEF NoResult
<1> QED BY <1>1, <1>2 DEF Init, PipelineInv, TypeOK, Stages

LEMMA PipelineNext == PipelineInv /\ [Next]_vars => PipelineInv'
<1> SUFFICES ASSUME PipelineInv, [Next]_vars PROVE PipelineInv'
  OBVIOUS
<1> USE DEF PipelineInv, TypeOK, Stages
<1>1. CASE Parse
  <2>1. PICK ss \in Stacks, w \in Wanted :
            sctx' = [sctx EXCEPT !.services = ss, !.wanted = w]
    BY <1>1 DEF Parse
  <2>2. ss \in Seq(Service) /\ w \in SUBSET Ports
    BY GradingAssumption
  <2>3. sctx' \in ScanFacts /\ sctx'.open = sctx.open /\ sctx'.probed = sctx.probed
    BY <2>1, <2>2 DEF ScanFacts
  <2> QED BY <1>1, <2>3 DEF Parse
<1>2. CASE ParseFails
  BY <1>2 DEF ParseFails
<1>3. CASE Probe
  <2>1. CASE UNCHANGED sctx
    BY <1>3, <2>1 DEF Probe
  <2>2. CASE \E o \in SUBSET Ports : sctx' = [sctx EXCEPT !.probed = TRUE, !.open = o]
    <3>1. PICK o \in SUBSET Ports : sctx' = [sctx EXCEPT !.probed = TRUE, !.open = o]
      BY <2>2
    <3>2. sctx' \in ScanFacts /\ sctx'.probed
      BY <3>1 DEF ScanFacts
    <3> QED BY <1>3, <3>2 DEF Probe
  <2> QED BY <1>3, <2>1, <2>2 DEF Probe
<1>4. CASE CollectSignals
  <2>1. CASE UNCHANGED sctx
    BY <1>4, <2>1 DEF CollectSignals
  <2>2. CASE ~UNCHANGED sctx
    <3>1. PICK h \in Hosts :
             sctx' = [sctx EXCEPT !.collected = TRUE, !.sockets = h.sockets,
                                  !.drop = h.drop, !.allow = h.allow, !.deny = h.deny,
                                  !.arr = h.arr, !.arrPort = h.arrPort]
      BY <1>4, <2>2 DEF CollectSignals
    <3>2. h \in Collected
      BY GradingAssumption
    <3>3. sctx' \in ScanFacts /\ sctx'.open = sctx.open /\ sctx'.probed = sctx.probed
      BY <3>1, <3>2 DEF ScanFacts, Collected
    <3> QED BY <1>4, <3>3 DEF CollectSignals
  <2> QED BY <2>1, <2>2
<1>5. CASE RunChecks
  <2>1. PICK e1 \in EXP001(sctx), e2 \in EXP002(sctx), o \in Others :
            findings' = e1 \o e2 \o SUP003(sctx) \o SUP004(sctx) \o SVC010(sctx) \o o
    BY <1>5 DEF RunChecks
  <2>2. /\ e1 \in Seq(Unclassified) /\ e2 \in Seq(Unclassified)
        /\ SUP003(sctx) \in Seq(Unclassified) /\ SUP004(sctx) \in Seq(Unclassified)
        /\ SVC010(sctx) \in Seq(Unclassified) /\ o \in Seq(Unclassified)
    BY ChecksType, OthersAssumption
  <2>3. findings' \in Seq(Unclassified)
    BY <2>1, <2>2
  <2>4. findings' \in Seq(FindingRecord)
    BY <2>3 DEF Unclassified
  <2> QED BY <1>5, <2>3, <2>4 DEF RunChecks
<1>6. CASE SortFindings
  <2>1. findings' \in Seq(Unclassified)
    BY <1>6, SortedType DEF SortFindings
  <2>2. findings' \in Seq(FindingRecord)
    BY <2>1 DEF Unclassified
  <2> QED BY <1>6, <2>1, <2>2 DEF SortFindings
<1>7. CASE Classify
  <2>1. findings \in Seq(Unclassified) /\ UNCHANGED <<sctx, result>>
        /\ stage' = "score"
        /\ findings' = [i \in DOMAIN findings |-> ClassifyFinding(findings[i])]
    BY <1>7 DEF Classify
  <2>2. \A i \in DOMAIN findings : ClassifyFinding(findings[i]) \in FindingRecord
    BY <2>1, ClassifiedType
  <2>3. findings' \in Seq(FindingRecord)
    BY <2>1, <2>2
  <2>4. \A f \in Unclassified : ClassifyFinding(f)' = ClassifyFinding(f)
    BY <2>1 DEF ClassifyFinding
  <2>5. \A i \in DOMAIN findings' :
            \E f \in Unclassified : findings'[i] = ClassifyFinding(f)
    BY <2>1
  <2>6. \A i \in DOMAIN findings' :
            \E f \in Unclassified : findings'[i] = ClassifyFinding(f)'
    BY <2>4, <2>5
  <2> QED BY <2>1, <2>3, <2>6
<1>8. CASE ScoreFindings
  <2>1. /\ result' = ComputeV2(findings) /\ UNCHANGED <<sctx, findings>>
        /\ stage = "score" /\ stage' = "done"
    BY <1>8 DEF ScoreFindings
  <2>2. \A f : ClassifyFinding(f)' = ClassifyFinding(f)
    BY <2>1 DEF ClassifyFinding
  <2>3. \A i \in DOMAIN findings' :
            \E f \in Unclassified : findings'[i] = ClassifyFinding(f)'
    BY <2>1, <2>2
  <2>4. result'.rating \in Grades
    BY <2>1, RatingType
  <2> QED BY <2>1, <2>3, <2>4
<1>9. CASE UNCHANGED vars
  <2>1. \A f : ClassifyFinding(f)' = ClassifyFinding(f)
    BY <1>9 DEF ClassifyFinding, vars
  <2> QED BY <1>9, <2>1 DEF vars
<1> QED BY <1>1, <1>2, <1>3, <1>4, <1>5, <1>6, <1>7, <1>8, <1>9 DEF Next

LEMMA Pipeline == Spec => []PipelineInv
BY PipelineInit, PipelineNext, PTL DEF Spec

\* The pipeline keeps its types: in particular Classify gives one of the six classes,
\* a sort returns findings, and the rating is a colour.
THEOREM TypeCorrect == Spec => []TypeOK
BY Pipeline, PTL DEF PipelineInv

-----------------------------------------------------------------------------
(***************************************************************************)
(* The theorems.                                                           *)
(***************************************************************************)
\* Of two hosts that differ in one observation, Classify (classifyOne, applyControls)
\* never gives the more exposed one the lower class.
THEOREM MoreExposedIsNeverSafer == Spec => []NeverSafer
<1>1. PipelineInv => NeverSafer
  <2> SUFFICES ASSUME sctx \in ScanFacts, NEW p \in Ports, NEW t \in MoreExposed(sctx)
               PROVE  classifyOne(sctx, p).class <= classifyOne(t, p).class
    <3>1. \A t \in MoreExposed(sctx), p \in Ports :
              classifyOne(sctx, p).class <= classifyOne(t, p).class
                 => classifyOne(t, p).class >= classifyOne(sctx, p).class
      OBVIOUS
    <3> QED BY <3>1 DEF NeverSafer, PipelineInv, TypeOK
  <2>1. CASE sctx.probed /\ \E q \in Ports : t = [sctx EXCEPT !.open = @ \cup {q}]
    BY <2>1, OneMoreOpenPort
  <2>2. CASE \E q \in Ports : t = [sctx EXCEPT !.allow = @ \cup {q}]
    <3>1. PICK q \in Ports : t = [sctx EXCEPT !.allow = @ \cup {q}]
      BY <2>2
    <3>2. t \in ScanFacts
      BY <3>1 DEF ScanFacts
    <3>3. /\ t.services = sctx.services /\ t.wanted = sctx.wanted /\ t.probed = sctx.probed
          /\ t.open = sctx.open /\ t.sockets = sctx.sockets
          /\ t.allow = sctx.allow \cup {q} /\ t.deny = sctx.deny /\ t.drop = sctx.drop
      BY <3>1 DEF ScanFacts
    <3>4. \A h : firewallDrops(t, h) => firewallDrops(sctx, h)
      BY <3>3 DEF firewallDrops
    <3> QED BY <3>2, <3>3, <3>4, FewerDrops
  <2>3. CASE \E q \in sctx.deny : t = [sctx EXCEPT !.deny = @ \ {q}]
    <3>1. PICK q \in sctx.deny : t = [sctx EXCEPT !.deny = @ \ {q}]
      BY <2>3
    <3>2. t \in ScanFacts
      BY <3>1 DEF ScanFacts
    <3>3. /\ t.services = sctx.services /\ t.wanted = sctx.wanted /\ t.probed = sctx.probed
          /\ t.open = sctx.open /\ t.sockets = sctx.sockets
          /\ t.allow = sctx.allow /\ t.deny = sctx.deny \ {q} /\ t.drop = sctx.drop
      BY <3>1 DEF ScanFacts
    <3>4. \A h : firewallDrops(t, h) => firewallDrops(sctx, h)
      BY <3>3 DEF firewallDrops
    <3> QED BY <3>2, <3>3, <3>4, FewerDrops
  <2>4. CASE t = [sctx EXCEPT !.drop = FALSE]
    <3>1. t \in ScanFacts
      BY <2>4 DEF ScanFacts
    <3>2. /\ t.services = sctx.services /\ t.wanted = sctx.wanted /\ t.probed = sctx.probed
          /\ t.open = sctx.open /\ t.sockets = sctx.sockets
          /\ t.allow = sctx.allow /\ t.deny = sctx.deny /\ t.drop = FALSE
      BY <2>4 DEF ScanFacts
    <3>3. \A h : firewallDrops(t, h) => firewallDrops(sctx, h)
      BY <3>2 DEF firewallDrops
    <3> QED BY <3>1, <3>2, <3>3, FewerDrops
  <2>5. CASE \E m \in PortMapping :
                /\ hostPortsFor(sctx, m.container) # {}
                /\ (m.all /\ ~declaredPublic(sctx, m.host)) =>
                      \A x \in Mappings(sctx) : mapping(sctx, x).host # m.host
                /\ t = [sctx EXCEPT !.services = Append(@, [cves |-> {}, ports |-> <<m>>])]
    BY <2>5, OneMoreMapping
  <2>6. CASE \E h \in Ports, b \in Binds : /\ ~DrawsLevel(sctx, h, b) /\ ~Replaces(sctx, h, b)
                                            /\ t = WithSocket(sctx, h, b)
    BY <2>6, OneMoreSocket
  <2>7. t \in MoreSockets(sctx) =>
            \E h \in Ports, b \in Binds : /\ ~DrawsLevel(sctx, h, b) /\ ~Replaces(sctx, h, b)
                                         /\ t = WithSocket(sctx, h, b)
    BY DEF MoreSockets
  <2> QED BY <2>1, <2>2, <2>3, <2>4, <2>5, <2>6, <2>7 DEF MoreExposed
<1> QED BY <1>1, Pipeline, PTL

(***************************************************************************)
(* The caps.                                                               *)
(***************************************************************************)
LEMMA RiskType ==
    ASSUME NEW f \in FindingRecord
    PROVE  risk(f) \in Nat
<1>1. f.impact \in Nat /\ f.class \in Classes /\ f.confidence \in DOMAIN ConfidenceMultiplier
  BY DEF FindingRecord
<1>2. ConfidenceMultiplier[f.confidence] \in Nat
  BY <1>1 DEF ConfidenceMultiplier
<1>3. ExposureMultiplier[f.class] \in Nat
  BY <1>1 DEF ExposureMultiplier
<1>4. threat(f) \in Nat
  <2>1. CASE f.cve \in DOMAIN Percentile \ KEV
    <3>1. Percentile[f.cve] \in 0..100
      BY <2>1, FeedAssumption
    <3>2. (70 * Percentile[f.cve]) \div 100 \in Nat
      BY <3>1
    <3> QED BY <2>1, <3>2 DEF threat
  <2>2. CASE ~(f.cve \in DOMAIN Percentile \ KEV)
    BY <2>2 DEF threat
  <2> QED BY <2>1, <2>2
<1>5. \A a, b, c, d \in Nat : a * b * c * d \in Nat
  OBVIOUS
<1> DEFINE m == IF AIMCP(f) THEN 20 ELSE ExposureMultiplier[f.class]
<1>6. m \in Nat
  BY <1>3
<1> HIDE DEF m
<1> QED BY <1>1, <1>2, <1>4, <1>5, <1>6 DEF risk, m

\* There is a first finding of the highest risk, and Driver is that one.
LEMMA DriverIsOne ==
    ASSUME NEW fs \in Seq(FindingRecord), NEW on \in SUBSET DOMAIN fs, on # {}
    PROVE  \E i \in on : /\ Driver(fs, on) = fs[i]
                         /\ \A j \in on : risk(fs[j]) <= risk(fs[i])
<1> DEFINE r(i) == risk(fs[i])
           First(i) == \A j \in on : r(j) < r(i) \/ (r(j) = r(i) /\ i <= j)
           rs == {n \in Nat : \E i \in on : n = r(i)}
<1>1. \A i \in on : r(i) \in Nat /\ i \in Nat
  BY RiskType
<1>2. IsFiniteSet(rs)
  <2>1. IsFiniteSet(on)
    <3>1. IsFiniteSet(1..Len(fs))
      BY FS_Interval
    <3> QED BY <3>1, FS_Subset
  <2> DEFINE g == [i \in on |-> r(i)]
  <2>2. g \in [on -> rs] /\ \A n \in rs : \E i \in on : g[i] = n
    BY <1>1
  <2> HIDE DEF g, rs
  <2>3. g \in Surjection(on, rs)
    BY <2>2, Fun_IsSurj
  <2> QED BY <2>1, <2>3, FS_Surjection
<1>3. rs \in SUBSET Nat /\ rs # {}
  BY <1>1
<1>4. PICK n \in rs : \A k \in rs : k <= n
  <2> HIDE DEF rs
  <2> QED BY <1>2, <1>3, FiniteGreatest
<1> HIDE DEF r
<1> DEFINE top == {i \in on : r(i) = n}
<1>5. top \in SUBSET Nat /\ top # {}
  BY <1>1, <1>4
<1>6. PICK i \in top : \A j \in top : i <= j
  <2> HIDE DEF top
  <2> QED BY <1>5, Least
<1>7. First(i)
  BY <1>1, <1>4, <1>6
<1>8. Driver(fs, on) = fs[CHOOSE j \in on : First(j)]
  BY DEF Driver, r
<1> DEFINE d == CHOOSE j \in on : First(j)
<1>9. d \in on /\ First(d)
  BY <1>6, <1>7
<1> HIDE DEF d
<1>10. \A j \in on : r(j) <= r(d)
  BY <1>1, <1>9
<1> QED BY <1>8, <1>9, <1>10 DEF d, r

\* applyKEVFatal only makes findings fatal.
LEMMA KEVOnlyAddsFatal ==
    ASSUME NEW fs \in Seq(FindingRecord)
    PROVE  /\ applyKEVFatal(fs) \in Seq(FindingRecord)
           /\ DOMAIN applyKEVFatal(fs) = DOMAIN fs
           /\ \A i \in DOMAIN fs :
                 LET f == applyKEVFatal(fs)[i]
                 IN /\ f.id = fs[i].id /\ f.status = fs[i].status
                    /\ f.severity = fs[i].severity /\ f.confidence = fs[i].confidence
                    /\ f.class = fs[i].class
                    /\ fs[i].fatal => f.fatal
                    /\ (/\ fs[i].cve \in KEV /\ CanCapRed(fs[i].class)
                        /\ fs[i].severity = "critical") => f.fatal
<1> DEFINE New(i) == IF fs[i].cve \in KEV /\ CanCapRed(fs[i].class)
                        /\ fs[i].severity = "critical"
                     THEN [fs[i] EXCEPT !.fatal = TRUE] ELSE fs[i]
<1>1. applyKEVFatal(fs) = [i \in DOMAIN fs |-> New(i)]
  BY DEF applyKEVFatal
<1>2. ASSUME NEW i \in DOMAIN fs
      PROVE  /\ New(i) \in FindingRecord
             /\ New(i).id = fs[i].id /\ New(i).status = fs[i].status
             /\ New(i).severity = fs[i].severity
             /\ New(i).confidence = fs[i].confidence /\ New(i).class = fs[i].class
             /\ fs[i].fatal => New(i).fatal
             /\ (/\ fs[i].cve \in KEV /\ CanCapRed(fs[i].class)
                 /\ fs[i].severity = "critical") => New(i).fatal
  <2>1. fs[i] \in FindingRecord
    OBVIOUS
  <2>2. CASE fs[i].cve \in KEV /\ CanCapRed(fs[i].class) /\ fs[i].severity = "critical"
    <3>1. New(i) = [fs[i] EXCEPT !.fatal = TRUE]
      BY <2>2
    <3> HIDE DEF New
    <3> QED BY <2>1, <3>1 DEF FindingRecord
  <2>3. CASE ~(fs[i].cve \in KEV /\ CanCapRed(fs[i].class) /\ fs[i].severity = "critical")
    <3>1. New(i) = fs[i]
      BY <2>3
    <3> HIDE DEF New
    <3> QED BY <2>1, <2>3, <3>1
  <2> QED BY <2>2, <2>3
<1> HIDE DEF New
<1> QED BY <1>1, <1>2

\* A cap names an assessed finding that failed, and is stricter than GREEN.
LEMMA CapNamesAFailure ==
    ASSUME NEW fs \in Seq(FindingRecord)
    PROVE  \/ computeCap(fs) = NoCap
           \/ /\ computeCap(fs).grade \in {"RED", "YELLOW"}
              /\ \E i \in DOMAIN fs : /\ fs[i].id = computeCap(fs).id
                                      /\ Assessed(fs[i]) /\ IsFail(fs[i])
<1> DEFINE ran      == {i \in DOMAIN fs : Assessed(fs[i])}
           network  == {i \in ran : NetworkRed(fs[i])}
           autonomy == {i \in ran : AutonomyRed(fs[i])}
           yellow   == {i \in ran : YellowCap(fs[i])}
           Cap(on, reason, grade) ==
               [id |-> Driver(fs, on).id, reason |-> reason, grade |-> grade]
           failed   == {i \in DOMAIN fs : Assessed(fs[i]) /\ IsFail(fs[i])}
<1>1. network \in SUBSET failed /\ autonomy \in SUBSET failed /\ yellow \in SUBSET failed
  BY DEF NetworkRed, AutonomyRed, YellowCap, IsFail
<1>2. ASSUME NEW on \in SUBSET failed, on # {}, NEW reason, NEW grade \in {"RED", "YELLOW"}
      PROVE  /\ Cap(on, reason, grade).grade \in {"RED", "YELLOW"}
             /\ \E i \in DOMAIN fs : /\ fs[i].id = Cap(on, reason, grade).id
                                     /\ Assessed(fs[i]) /\ IsFail(fs[i])
  <2>1. PICK i \in on : Driver(fs, on) = fs[i]
    BY <1>2, DriverIsOne
  <2> QED BY <2>1
<1>3. \/ computeCap(fs) = NoCap
      \/ network # {} /\ computeCap(fs) = Cap(network, "network", "RED")
      \/ autonomy # {} /\ computeCap(fs) = Cap(autonomy, "autonomy", "RED")
      \/ yellow # {} /\ computeCap(fs) = Cap(yellow, "unmitigated", "YELLOW")
  BY DEF computeCap
<1> DEFINE Explains(c) ==
        /\ c.grade \in {"RED", "YELLOW"}
        /\ \E i \in DOMAIN fs : fs[i].id = c.id /\ Assessed(fs[i]) /\ IsFail(fs[i])
<1>4. /\ network # {} => Explains(Cap(network, "network", "RED"))
      /\ autonomy # {} => Explains(Cap(autonomy, "autonomy", "RED"))
      /\ yellow # {} => Explains(Cap(yellow, "unmitigated", "YELLOW"))
  <2> HIDE DEF network, autonomy, yellow, Cap, failed
  <2> QED BY <1>1, <1>2
<1>5. computeCap(fs) = NoCap \/ Explains(computeCap(fs))
  <2> HIDE DEF network, autonomy, yellow, Cap, Explains
  <2> QED BY <1>3, <1>4
<1> QED BY <1>5

\* ComputeV2: a cap is reported exactly when the rating is below the band of the score,
\* and it names a check that failed.
THEOREM CapsAreExplained == Spec => []CapExplained
<1>1. PipelineInv => CapExplained
  <2> SUFFICES ASSUME PipelineInv, stage = "done"
               PROVE  /\ (result.cap = NoCap) = (result.rating = band(result.numeric))
                      /\ result.cap # NoCap =>
                            \E i \in DOMAIN findings :
                               /\ findings[i].id = result.cap.id
                               /\ Assessed(findings[i]) /\ IsFail(findings[i])
    BY DEF CapExplained
  <2> DEFINE fs   == applyKEVFatal(findings)
             n    == computeNumeric(fs, DOMAIN fs)
             c    == computeCap(fs)
             rate == worst(band(n), c.grade)
  <2>1. findings \in Seq(FindingRecord) /\ result = ComputeV2(findings)
    BY DEF PipelineInv, TypeOK
  <2>2. /\ result.numeric = n /\ result.rating = rate
        /\ result.cap = IF GradeRank[rate] < GradeRank[band(n)] THEN c ELSE NoCap
    BY <2>1 DEF ComputeV2
  <2>3. /\ fs \in Seq(FindingRecord) /\ DOMAIN fs = DOMAIN findings
        /\ \A i \in DOMAIN findings :
              /\ fs[i].id = findings[i].id /\ fs[i].status = findings[i].status
              /\ fs[i].severity = findings[i].severity
    BY <2>1, KEVOnlyAddsFatal
  <2>4. \/ c = NoCap
        \/ /\ c.grade \in {"RED", "YELLOW"}
           /\ \E i \in DOMAIN fs : fs[i].id = c.id /\ Assessed(fs[i]) /\ IsFail(fs[i])
    BY <2>3, CapNamesAFailure
  <2>5. band(n) \in Grades
    BY DEF band, Grades
  <2>6. c.grade \in Grades /\ (c.grade # "GREEN" => c # NoCap)
    BY <2>4 DEF NoCap, Grades
  <2> HIDE DEF fs, n, c
  <2>7. /\ GradeRank[rate] < GradeRank[band(n)] <=> rate # band(n)
        /\ rate # band(n) => c.grade # "GREEN"
    BY <2>5, <2>6 DEF worst, GradeRank, Grades
  <2>8. (result.cap = NoCap) <=> (result.rating = band(result.numeric))
    <3> HIDE DEF rate
    <3> QED BY <2>2, <2>6, <2>7
  <2>9. result.cap # NoCap => result.cap = c /\ c # NoCap
    BY <2>2
  <2> QED BY <2>3, <2>4, <2>8, <2>9 DEF Assessed, IsFail
<1> QED BY <1>1, Pipeline, PTL

\* computeCap at the end of the pipeline: a failed fatal check, or a KEV CVE, whose
\* port is open from outside on any host port that stands for it, makes the box RED.
THEOREM ExposedFatalsAreRed == Spec => []ExposedFatalIsRed
<1>1. PipelineInv => ExposedFatalIsRed
  <2> SUFFICES ASSUME PipelineInv, stage = "done", NEW i \in DOMAIN findings,
                      NEW h \in Candidates(sctx, findings[i].port),
                      Assessed(findings[i]), IsFail(findings[i]),
                      findings[i].confidence = "high", findings[i].port # 0,
                      \/ findings[i].fatal
                      \/ findings[i].cve \in KEV /\ findings[i].severity = "critical",
                      h \in sctx.open, FacesOut(h)
               PROVE  result.rating = "RED"
    BY DEF ExposedFatalIsRed
  <2> DEFINE f == findings[i]
             e == Effective(sctx, f.port)
             fs == applyKEVFatal(findings)
  <2>1. /\ sctx \in ScanFacts /\ sctx.probed /\ findings \in Seq(FindingRecord)
        /\ result = ComputeV2(findings)
    BY DEF PipelineInv, TypeOK
  <2>2. PICK g \in Unclassified : f = ClassifyFinding(g)
    BY DEF PipelineInv
  <2>3. g \in FindingRecord /\ g.port = f.port /\ g.severity = f.severity
    BY <2>2 DEF ClassifyFinding, Unclassified, FindingRecord
  <2>4. g.class = Unknown /\ ~AIMCP(g)
    BY <2>3 DEF Unclassified
  <2>5. f.class = Mitigated(sctx, e)
    <3>1. g.severity # "ok"
      BY <2>3 DEF IsFail
    <3>2. f = [g EXCEPT !.class = classifyOne(sctx, g.port).class,
                        !.mitigations = classifyOne(sctx, g.port).mitigations]
      BY <2>2, <2>3, <2>4, <3>1 DEF ClassifyFinding
    <3>3. f.class = classifyOne(sctx, f.port).class
      BY <2>3, <3>2 DEF FindingRecord
    <3> QED BY <3>3, ClassOfPort
  <2>6. ClassAt(sctx, h) = Internet
    <3>1. CASE BindsOf(sctx, h) = {}
      BY <2>1, <3>1 DEF ClassAt
    <3>2. CASE BindsOf(sctx, h) = {"public"}
      <4>1. {bindClass[b] : b \in BindsOf(sctx, h)} = {Internet}
        BY <3>2 DEF bindClass
      <4>2. Max({Internet}) = Internet
        BY DEF Max, Internet
      <4>3. maxBindClass(sctx, h) = Internet
        BY <4>1, <4>2 DEF maxBindClass
      <4> QED BY <3>2, <4>3 DEF ClassAt
    <3> QED BY <3>1, <3>2 DEF FacesOut
  <2>7. ClassAt(sctx, e) = Internet
    <3>1. ClassAt(sctx, h) <= ClassAt(sctx, e)
      BY <2>1, EffectiveIsWorst
    <3>2. ClassAt(sctx, e) \in Classes
      BY <2>1, ClassType
    <3> HIDE DEF e
    <3> QED BY <2>6, <3>1, <3>2 DEF Classes, Unknown, Internet
  <2>8. e \in sctx.open
    <3>1. BindsOf(sctx, e) = {} => e \in sctx.open
      BY <2>1, <2>7 DEF ClassAt, Internet, Filtered
    <3>2. BindsOf(sctx, e) # {} => e \in sctx.open
      BY <2>7 DEF ClassAt, maxBindClass, Internet, Filtered
    <3> QED BY <3>1, <3>2
  <2>9. f.class = Internet
    <3>1. Controls(sctx, e) = {}
      BY <2>8 DEF Controls
    <3> HIDE DEF e, f
    <3> QED BY <2>5, <2>7, <3>1, ControlsLower DEF Mitigated, Classes, Unknown, Internet
  <2>10. i \in DOMAIN fs /\ Assessed(fs[i]) /\ NetworkRed(fs[i])
    <3>1. /\ DOMAIN fs = DOMAIN findings /\ fs[i].status = f.status
          /\ fs[i].severity = f.severity /\ fs[i].confidence = f.confidence
          /\ fs[i].class = f.class /\ (f.fatal => fs[i].fatal)
          /\ (f.cve \in KEV /\ CanCapRed(f.class) /\ f.severity = "critical") => fs[i].fatal
      BY <2>1, KEVOnlyAddsFatal
    <3>2. CanCapRed(f.class)
      BY <2>9 DEF CanCapRed
    <3> HIDE DEF fs
    <3> QED BY <2>9, <3>1, <3>2 DEF Assessed, NetworkRed, IsFail
  <2>11. computeCap(fs).grade = "RED"
    BY <2>10 DEF computeCap
  <2>12. band(computeNumeric(fs, DOMAIN fs)) \in Grades
    BY DEF band, Grades
  <2>13. worst(band(computeNumeric(fs, DOMAIN fs)), "RED") = "RED"
    BY <2>12 DEF worst, GradeRank, Grades
  <2>14. result.rating = worst(band(computeNumeric(fs, DOMAIN fs)), computeCap(fs).grade)
    BY <2>1 DEF ComputeV2
  <2> QED BY <2>11, <2>13, <2>14
<1> QED BY <1>1, Pipeline, PTL

-----------------------------------------------------------------------------
(***************************************************************************)
(* Sums.  The library computes one by taking elements off a set; that this *)
(* is well-defined, and the order does not matter, is shown by looking at  *)
(* a smallest set that would have it otherwise.                            *)
(***************************************************************************)
Some(s) == CHOOSE x \in s : TRUE

Iterates(h, g, S) ==
    h = [s \in SUBSET S |-> IF s = {} THEN 0 ELSE g[Some(s)] + h[s \ {Some(s)}]]

Iteration(g, S) == CHOOSE h : Iterates(h, g, S)

LEMMA SumUnfolds ==
    ASSUME NEW g, NEW S
    PROVE  Total(g, S) = Iteration(g, S)[S]
BY DEF Total, SumFunctionOnSet, FoldFunctionOnSet, MapThenFoldSet, Iteration, Iterates, Some

LEMMA SomeIsIn ==
    ASSUME NEW s, s # {}, IsFiniteSet(s)
    PROVE  /\ Some(s) \in s /\ IsFiniteSet(s \ {Some(s)})
           /\ Cardinality(s) \in Nat /\ Cardinality(s \ {Some(s)}) = Cardinality(s) - 1
           /\ Cardinality(s) > 0
<1>1. Some(s) \in s
  BY DEF Some
<1>2. Cardinality(s) \in Nat /\ Cardinality(s) # 0
  BY FS_CardinalityType, FS_EmptySet
<1> QED BY <1>1, <1>2, FS_RemoveElement

\* The recursion has a solution.
LEMMA IterationExists ==
    ASSUME NEW D, NEW g \in [D -> Nat], NEW S \in SUBSET D, IsFiniteSet(S)
    PROVE  \E h \in [SUBSET S -> Nat] : Iterates(h, g, S)
<1> DEFINE Small(n)   == {s \in SUBSET S : Cardinality(s) <= n}
           Val(h, s)  == IF s = {} THEN 0 ELSE g[Some(s)] + h[s \ {Some(s)}]
           Upto(h, n) == h \in [Small(n) -> Nat] /\ \A s \in Small(n) : h[s] = Val(h, s)
           Bad        == {n \in Nat : ~ \E h : Upto(h, n)}
<1>1. \A s \in SUBSET S : IsFiniteSet(s) /\ Cardinality(s) \in Nat
  BY FS_Subset, FS_CardinalityType
<1>2. \E h : Upto(h, 0)
  <2>1. \A s \in Small(0) : s = {}
    BY <1>1, FS_EmptySet
  <2> HIDE DEF Small
  <2>2. Upto([s \in Small(0) |-> 0], 0)
    BY <2>1
  <2> QED BY <2>2
<1>3. ASSUME NEW n \in Nat, NEW h, Upto(h, n)
      PROVE  \E k : Upto(k, n + 1)
  <2> DEFINE k == [s \in Small(n + 1) |-> Val(h, s)]
  <2>1. ASSUME NEW s \in Small(n + 1), s # {}
        PROVE  /\ s \ {Some(s)} \in Small(n) /\ s \ {Some(s)} \in Small(n + 1)
               /\ g[Some(s)] \in Nat
    <3>1. s \in SUBSET S /\ IsFiniteSet(s)
      BY <1>1
    <3>2. /\ Some(s) \in s /\ Cardinality(s) \in Nat
          /\ Cardinality(s \ {Some(s)}) = Cardinality(s) - 1
      BY <2>1, <3>1, SomeIsIn
    <3> QED BY <3>1, <3>2
  <2>2. \A s \in Small(n) : s \in Small(n + 1)
    BY <1>1
  <2> HIDE DEF Small
  <2>3. k \in [Small(n + 1) -> Nat]
    <3> SUFFICES ASSUME NEW s \in Small(n + 1) PROVE Val(h, s) \in Nat
      OBVIOUS
    <3>1. CASE s = {}
      BY <3>1
    <3>2. CASE s # {}
      <4>1. h[s \ {Some(s)}] \in Nat /\ g[Some(s)] \in Nat
        BY <1>3, <2>1, <3>2
      <4> QED BY <3>2, <4>1
    <3> QED BY <3>1, <3>2
  <2>4. ASSUME NEW s \in Small(n + 1)
        PROVE  k[s] = Val(k, s)
    <3>1. CASE s = {}
      BY <3>1
    <3>2. CASE s # {}
      <4> DEFINE u == s \ {Some(s)}
      <4>1. u \in Small(n) /\ u \in Small(n + 1)
        BY <2>1, <3>2
      <4>2. h[u] = Val(h, u)
        BY <1>3, <4>1
      <4>3. k[u] = Val(h, u)
        BY <4>1
      <4>4. k[s] = g[Some(s)] + h[u]
        BY <3>2
      <4> HIDE DEF k, u
      <4> QED BY <3>2, <4>2, <4>3, <4>4 DEF u
    <3> QED BY <3>1, <3>2
  <2> HIDE DEF k, Val
  <2>5. Upto(k, n + 1)
    BY <2>3, <2>4
  <2> QED BY <2>5
<1>4. Bad = {}
  <2> SUFFICES ASSUME Bad # {} PROVE FALSE
    OBVIOUS
  <2> HIDE DEF Upto
  <2>1. PICK n \in Bad : \A k \in Bad : n <= k
    BY Least
  <2>2. n \in Nat /\ n # 0
    BY <1>2, <2>1
  <2>3. n - 1 \in Nat /\ n - 1 \notin Bad
    <3> HIDE DEF Bad
    <3>1. n - 1 \in Nat /\ ~ (n <= n - 1)
      BY <2>1, <2>2
    <3> QED BY <2>1, <2>2, <3>1
  <2>4. PICK h : Upto(h, n - 1)
    BY <2>3
  <2>5. \E k : Upto(k, (n - 1) + 1)
    BY <1>3, <2>3, <2>4
  <2> QED BY <2>1, <2>2, <2>5
<1>5. Cardinality(S) \in Nat
  BY FS_CardinalityType
<1>6. PICK h : Upto(h, Cardinality(S))
  BY <1>4, <1>5
<1>7. Small(Cardinality(S)) = SUBSET S
  BY FS_Subset
<1>8. h \in [SUBSET S -> Nat] /\ \A s \in SUBSET S : h[s] = Val(h, s)
  BY <1>6, <1>7
<1>9. h = [s \in SUBSET S |-> Val(h, s)]
  <2> HIDE DEF Val
  <2> QED BY <1>8
<1> QED BY <1>8, <1>9 DEF Iterates

\* And one only, as far as two sets have subsets in common.
LEMMA IterationIsUnique ==
    ASSUME NEW g, NEW S, NEW T, NEW h, NEW k, Iterates(h, g, S), Iterates(k, g, T),
           NEW u \in SUBSET (S \cap T), IsFiniteSet(u)
    PROVE  h[u] = k[u]
<1> DEFINE Bad == {n \in Nat : \E s \in SUBSET (S \cap T) :
                      IsFiniteSet(s) /\ Cardinality(s) = n /\ h[s] # k[s]}
<1> SUFFICES ASSUME Bad # {} PROVE FALSE
  BY FS_CardinalityType
<1>1. PICK n \in Bad : \A m \in Bad : n <= m
  BY Least
<1>2. PICK s \in SUBSET (S \cap T) : IsFiniteSet(s) /\ Cardinality(s) = n /\ h[s] # k[s]
  BY <1>1
<1>3. /\ h[s] = IF s = {} THEN 0 ELSE g[Some(s)] + h[s \ {Some(s)}]
      /\ k[s] = IF s = {} THEN 0 ELSE g[Some(s)] + k[s \ {Some(s)}]
  BY <1>2 DEF Iterates
<1>4. s # {}
  BY <1>2, <1>3
<1> DEFINE v == s \ {Some(s)}
<1>5. IsFiniteSet(v) /\ Cardinality(v) = n - 1 /\ n \in Nat /\ n > 0
  BY <1>2, <1>4, SomeIsIn
<1>6. v \in SUBSET (S \cap T)
  OBVIOUS
<1>7. n - 1 \notin Bad /\ n - 1 \in Nat
  <2> HIDE DEF Bad
  <2>1. n - 1 \in Nat /\ ~ (n <= n - 1)
    BY <1>1, <1>5
  <2> QED BY <1>1, <1>5, <2>1
<1>8. h[v] = k[v]
  BY <1>5, <1>6, <1>7
<1> QED BY <1>2, <1>3, <1>4, <1>8

LEMMA SumIs ==
    ASSUME NEW D, NEW g \in [D -> Nat], NEW S \in SUBSET D, IsFiniteSet(S)
    PROVE  Iterates(Iteration(g, S), g, S) /\ Total(g, S) \in Nat
<1>1. PICK h \in [SUBSET S -> Nat] : Iterates(h, g, S)
  BY IterationExists
<1>2. Iterates(Iteration(g, S), g, S)
  BY <1>1 DEF Iteration
<1>3. h[S] = Iteration(g, S)[S]
  BY <1>1, <1>2, IterationIsUnique
<1> QED BY <1>1, <1>2, <1>3, SumUnfolds

LEMMA SumOfNone ==
    ASSUME NEW D, NEW g \in [D -> Nat]
    PROVE  Total(g, {}) = 0
<1>1. Iterates(Iteration(g, {}), g, {})
  BY SumIs, FS_EmptySet
<1> QED BY <1>1, SumUnfolds DEF Iterates

LEMMA SumTakesSome ==
    ASSUME NEW D, NEW g \in [D -> Nat], NEW S \in SUBSET D, IsFiniteSet(S), S # {}
    PROVE  Total(g, S) = g[Some(S)] + Total(g, S \ {Some(S)})
<1> DEFINE T == S \ {Some(S)}
           h == Iteration(g, S)
           k == Iteration(g, T)
<1>1. T \in SUBSET D /\ IsFiniteSet(T) /\ T \in SUBSET (S \cap T)
  BY FS_Subset
<1> HIDE DEF h, k, T
<1>2. Iterates(h, g, S) /\ Total(g, S) = h[S]
  BY SumIs, SumUnfolds DEF h
<1>3. Iterates(k, g, T) /\ Total(g, T) = k[T]
  BY <1>1, SumIs, SumUnfolds DEF k
<1>4. h[S] = g[Some(S)] + h[T]
  BY <1>2 DEF Iterates, T
<1>5. h[T] = k[T]
  BY <1>1, <1>2, <1>3, IterationIsUnique
<1> QED BY <1>2, <1>3, <1>4, <1>5 DEF T

\* Any element can be taken off.
LEMMA SumTakes ==
    ASSUME NEW D, NEW g \in [D -> Nat], NEW S \in SUBSET D, IsFiniteSet(S), NEW x \in S
    PROVE  Total(g, S) = g[x] + Total(g, S \ {x})
<1> DEFINE Bad == {n \in Nat : \E T \in SUBSET D : \E y \in T :
                      /\ IsFiniteSet(T) /\ Cardinality(T) = n
                      /\ Total(g, T) # g[y] + Total(g, T \ {y})}
<1> SUFFICES ASSUME Bad # {} PROVE FALSE
  BY FS_CardinalityType
<1>1. PICK n \in Bad : \A m \in Bad : n <= m
  BY Least
<1>2. PICK T \in SUBSET D : \E y \in T :
          /\ IsFiniteSet(T) /\ Cardinality(T) = n
          /\ Total(g, T) # g[y] + Total(g, T \ {y})
  BY <1>1
<1>3. PICK y \in T : /\ IsFiniteSet(T) /\ Cardinality(T) = n
                     /\ Total(g, T) # g[y] + Total(g, T \ {y})
  BY <1>2
<1> DEFINE z == Some(T)
           U == T \ {z}
           V == T \ {y}
           W == (T \ {z}) \ {y}
<1>4. /\ z \in T /\ IsFiniteSet(U) /\ Cardinality(U) = n - 1 /\ n \in Nat /\ n > 0
  BY <1>3, SomeIsIn
<1>5. IsFiniteSet(V) /\ Cardinality(V) = n - 1 /\ IsFiniteSet(W)
  BY <1>3, <1>4, FS_RemoveElement, FS_Subset
<1>6. Total(g, T) = g[z] + Total(g, U)
  BY <1>3, SumTakesSome
<1>7. y # z
  BY <1>3, <1>6
<1>8. n - 1 \in Nat /\ n - 1 \notin Bad
  <2> HIDE DEF Bad
  <2>1. n - 1 \in Nat /\ ~ (n <= n - 1)
    BY <1>1, <1>4
  <2> QED BY <1>1, <1>4, <2>1
<1>9. Total(g, U) = g[y] + Total(g, W)
  <2>1. U \in SUBSET D /\ y \in U
    BY <1>7
  <2> HIDE DEF U, W
  <2>2. Total(g, U) = g[y] + Total(g, U \ {y})
    BY <1>4, <1>8, <2>1
  <2> QED BY <2>2 DEF U, W
<1>10. Total(g, V) = g[z] + Total(g, W)
  <2>1. V \in SUBSET D /\ z \in V /\ V \ {z} = W
    BY <1>4, <1>7
  <2> HIDE DEF V, W, z
  <2>2. Total(g, V) = g[z] + Total(g, V \ {z})
    BY <1>5, <1>8, <2>1
  <2> QED BY <2>1, <2>2
<1>11. g[y] \in Nat /\ g[z] \in Nat /\ Total(g, W) \in Nat
  <2>1. Total(g, W) \in Nat
    BY <1>5, SumIs
  <2> QED BY <1>4, <2>1
<1> HIDE DEF U, V, W, z
<1>12. Total(g, T) = g[y] + Total(g, V)
  BY <1>6, <1>9, <1>10, <1>11
<1> QED BY <1>3, <1>12 DEF V

\* The sum over two sets that have nothing in common.
LEMMA SumOfUnion ==
    ASSUME NEW D, NEW g \in [D -> Nat], NEW S \in SUBSET D, NEW T \in SUBSET D,
           IsFiniteSet(S), IsFiniteSet(T), S \cap T = {}
    PROVE  Total(g, S \cup T) = Total(g, S) + Total(g, T)
<1> DEFINE Bad == {n \in Nat : \E A \in SUBSET T :
                      /\ IsFiniteSet(A) /\ Cardinality(A) = n
                      /\ Total(g, S \cup A) # Total(g, S) + Total(g, A)}
<1> SUFFICES ASSUME Bad # {} PROVE FALSE
  BY FS_CardinalityType
<1>1. PICK n \in Bad : \A m \in Bad : n <= m
  BY Least
<1>2. PICK A \in SUBSET T : /\ IsFiniteSet(A) /\ Cardinality(A) = n
                            /\ Total(g, S \cup A) # Total(g, S) + Total(g, A)
  BY <1>1
<1>3. Total(g, S) \in Nat
  BY SumIs
<1>4. A # {}
  <2> SUFFICES ASSUME A = {} PROVE FALSE
    OBVIOUS
  <2>1. S \cup A = S
    OBVIOUS
  <2>2. Total(g, A) = 0
    BY SumOfNone
  <2> QED BY <1>2, <1>3, <2>1, <2>2
<1> DEFINE x == Some(A)
           B == A \ {x}
<1>5. /\ x \in A /\ IsFiniteSet(B) /\ Cardinality(B) = n - 1 /\ n \in Nat /\ n > 0
  BY <1>2, <1>4, SomeIsIn
<1>6. n - 1 \in Nat /\ n - 1 \notin Bad
  <2> HIDE DEF Bad
  <2>1. n - 1 \in Nat /\ ~ (n <= n - 1)
    BY <1>1, <1>5
  <2> QED BY <1>1, <1>5, <2>1
<1>7. Total(g, S \cup B) = Total(g, S) + Total(g, B)
  <2>1. B \in SUBSET T
    OBVIOUS
  <2> HIDE DEF B
  <2> QED BY <1>5, <1>6, <2>1
<1>8. Total(g, S \cup A) = g[x] + Total(g, S \cup B)
  <2>1. IsFiniteSet(S \cup A)
    BY <1>2, FS_Union
  <2>2. S \cup A \in SUBSET D /\ x \in S \cup A /\ (S \cup A) \ {x} = S \cup B
    BY <1>5
  <2> HIDE DEF x, B
  <2>3. Total(g, S \cup A) = g[x] + Total(g, (S \cup A) \ {x})
    BY <2>1, <2>2, SumTakes
  <2> QED BY <2>2, <2>3
<1>9. Total(g, A) = g[x] + Total(g, B)
  <2> HIDE DEF x
  <2> QED BY <1>2, <1>5, SumTakes
<1>10. g[x] \in Nat /\ Total(g, B) \in Nat
  <2>1. Total(g, B) \in Nat
    BY <1>5, SumIs
  <2> QED BY <1>5, <2>1
<1> HIDE DEF x, B
<1> QED BY <1>2, <1>3, <1>7, <1>8, <1>9, <1>10

\* A sum of smaller numbers is smaller.
LEMMA SumBelow ==
    ASSUME NEW D, NEW g \in [D -> Nat], NEW k \in [D -> Nat], NEW S \in SUBSET D,
           IsFiniteSet(S), \A x \in S : g[x] <= k[x]
    PROVE  Total(g, S) <= Total(k, S)
<1> DEFINE Bad == {n \in Nat : \E A \in SUBSET S :
                      /\ IsFiniteSet(A) /\ Cardinality(A) = n
                      /\ ~(Total(g, A) <= Total(k, A))}
<1> SUFFICES ASSUME Bad # {} PROVE FALSE
  BY FS_CardinalityType
<1>1. PICK n \in Bad : \A m \in Bad : n <= m
  BY Least
<1>2. PICK A \in SUBSET S : /\ IsFiniteSet(A) /\ Cardinality(A) = n
                            /\ ~(Total(g, A) <= Total(k, A))
  BY <1>1
<1>3. A # {}
  <2> SUFFICES ASSUME A = {} PROVE FALSE
    OBVIOUS
  <2>1. Total(g, A) = 0 /\ Total(k, A) = 0
    BY SumOfNone
  <2> QED BY <1>2, <2>1
<1> DEFINE x == Some(A)
           B == A \ {x}
<1>4. /\ x \in A /\ IsFiniteSet(B) /\ Cardinality(B) = n - 1 /\ n \in Nat /\ n > 0
  BY <1>2, <1>3, SomeIsIn
<1>5. n - 1 \in Nat /\ n - 1 \notin Bad
  <2> HIDE DEF Bad
  <2>1. n - 1 \in Nat /\ ~ (n <= n - 1)
    BY <1>1, <1>4
  <2> QED BY <1>1, <1>4, <2>1
<1>6. B \in SUBSET S /\ B \in SUBSET D /\ x \in S
  BY <1>4
<1>7. Total(g, B) <= Total(k, B)
  <2> HIDE DEF B
  <2> QED BY <1>4, <1>5, <1>6
<1>8. Total(g, A) = g[x] + Total(g, B) /\ Total(k, A) = k[x] + Total(k, B)
  <2> HIDE DEF x
  <2> QED BY <1>2, <1>4, SumTakes
<1>9. /\ g[x] \in Nat /\ k[x] \in Nat /\ g[x] <= k[x]
      /\ Total(g, B) \in Nat /\ Total(k, B) \in Nat
  <2>1. Total(g, B) \in Nat /\ Total(k, B) \in Nat
    BY <1>4, <1>6, SumIs
  <2> QED BY <1>6, <2>1
<1> HIDE DEF x, B
<1> QED BY <1>2, <1>7, <1>8, <1>9

-----------------------------------------------------------------------------
(***************************************************************************)
(* The score of all findings and the scores of their groups.               *)
(***************************************************************************)
LEMMA Quotient ==
    ASSUME NEW a \in Nat, NEW b \in Nat, b > 0
    PROVE  /\ a \div b \in Nat
           /\ \A k \in Nat : k <= a \div b <=> k * b <= a
<1> DEFINE q == a \div b
<1>1. q \in Nat /\ q * b <= a
  OBVIOUS
<1>2. a < q * b + b
  OBVIOUS
<1> HIDE DEF q
<1>3. ASSUME NEW k \in Nat
      PROVE  k <= q <=> k * b <= a
  <2>1. CASE k <= q
    <3>1. k * b <= q * b
      BY <1>1, <2>1
    <3> QED BY <1>1, <2>1, <3>1
  <2>2. CASE k >= q + 1
    <3>1. k * b >= (q + 1) * b
      BY <1>1, <2>2
    <3>2. k * b > a
      BY <1>1, <1>2, <3>1
    <3> QED BY <1>1, <2>2, <3>2
  <2> QED BY <1>1, <2>1, <2>2
<1> QED BY <1>1, <1>3 DEF q

LEMMA ProductWithin ==
    ASSUME NEW a \in Nat, NEW b \in Nat, NEW c \in Nat, NEW d \in Nat, a <= c, b <= d
    PROVE  a * b \in Nat /\ a * b <= c * d
<1>1. a * b <= c * b
  OBVIOUS
<1>2. c * b <= c * d
  OBVIOUS
<1> QED BY <1>1, <1>2

\* No exposure, threat or confidence makes a finding weigh more than its check.
LEMMA RiskWithinMax ==
    ASSUME NEW f \in FindingRecord
    PROVE  risk(f) \in Nat /\ maxrisk(f) \in Nat /\ risk(f) <= maxrisk(f)
<1> DEFINE e == IF AIMCP(f) THEN 20 ELSE ExposureMultiplier[f.class]
           t == threat(f)
           c == ConfidenceMultiplier[f.confidence]
<1>1. f.impact \in Nat /\ f.class \in Classes /\ f.confidence \in DOMAIN ConfidenceMultiplier
  BY DEF FindingRecord
<1>2. e \in 0..20
  BY <1>1 DEF ExposureMultiplier
<1>3. t \in 0..100
  <2>1. CASE f.cve \in DOMAIN Percentile \ KEV
    <3> DEFINE p == Percentile[f.cve]
    <3>1. p \in 0..100
      BY <2>1, FeedAssumption
    <3>2. t = 30 + (70 * p) \div 100
      BY <2>1 DEF threat
    <3> HIDE DEF p, t
    <3>3. (70 * p) \div 100 \in 0..70
      BY <3>1
    <3> QED BY <3>2, <3>3
  <2>2. CASE ~(f.cve \in DOMAIN Percentile \ KEV)
    BY <2>2 DEF threat
  <2> QED BY <2>1, <2>2
<1>4. c \in 0..10
  BY <1>1 DEF ConfidenceMultiplier
<1>5. risk(f) = f.impact * e * t * c
  BY DEF risk
<1>6. maxrisk(f) = f.impact * 20000
  BY DEF maxrisk, Unit
<1> HIDE DEF e, t, c
<1> DEFINE w == e * t * c
<1>7. w \in Nat /\ w <= 20000
  <2> DEFINE v == e * t
  <2>1. v \in Nat /\ v <= 20 * 100
    BY <1>2, <1>3, ProductWithin
  <2> HIDE DEF v
  <2>2. v * c \in Nat /\ v * c <= (20 * 100) * 10
    BY <1>4, <2>1, ProductWithin
  <2> QED BY <2>2 DEF v
<1>8. risk(f) = f.impact * w
  BY <1>1, <1>2, <1>3, <1>4, <1>5
<1> HIDE DEF w
<1>9. f.impact * w \in Nat /\ f.impact * w <= f.impact * 20000
  BY <1>1, <1>7, ProductWithin
<1> QED BY <1>1, <1>6, <1>8, <1>9

\* The sums computeNumeric takes, over the findings with indices in on.
Risks(fs)    == [i \in DOMAIN fs |-> risk(fs[i])]
Ceilings(fs) == [i \in DOMAIN fs |-> maxrisk(fs[i])]
Ran(fs, on)   == {i \in on : Assessed(fs[i])}
Fails(fs, on) == {i \in Ran(fs, on) : IsFail(fs[i])}
Infos(fs, on) == {i \in Ran(fs, on) : fs[i].severity = "info"}
sumMax(fs, on) == Total(Ceilings(fs), Ran(fs, on))
sumRisk(fs, on) == Total(Risks(fs), Fails(fs, on))
sumInfoRisk(fs, on) == Total(Risks(fs), Infos(fs, on))

Numeric(m, r) == IF m = 0 THEN 100 ELSE (200 * (m - AtMost(r, m)) + m) \div (2 * m)

LEMMA NumericOf ==
    ASSUME NEW fs, NEW on
    PROVE  computeNumeric(fs, on)
               = Numeric(sumMax(fs, on), sumRisk(fs, on) + AtMost(sumInfoRisk(fs, on), infoCap))
BY DEF computeNumeric, Numeric, sumMax, sumRisk, sumInfoRisk, Risks, Ceilings, Ran, Fails, Infos

LEMMA NumericReaches ==
    ASSUME NEW m \in Nat, NEW r \in Nat
    PROVE  /\ Numeric(m, r) \in 0..100
           /\ m = 0 => Numeric(m, r) = 100
           /\ \A k \in Nat : m > 0 =>
                 (k <= Numeric(m, r) <=> k * (2 * m) <= 200 * (m - AtMost(r, m)) + m)
<1>1. CASE m = 0
  BY <1>1 DEF Numeric
<1>2. CASE m > 0
  <2> DEFINE a == 200 * (m - AtMost(r, m)) + m
             b == 2 * m
  <2>1. a \in Nat /\ b \in Nat /\ b > 0 /\ a <= 201 * m
    BY <1>2 DEF AtMost
  <2>2. Numeric(m, r) = a \div b
    BY <1>2 DEF Numeric
  <2>3. ~(101 * b <= a)
    BY <1>2, <2>1
  <2> HIDE DEF a, b
  <2>4. a \div b \in Nat /\ \A k \in Nat : k <= a \div b <=> k * b <= a
    BY <2>1, Quotient
  <2>5. a \div b \in 0..100
    BY <2>3, <2>4
  <2> QED BY <1>2, <2>2, <2>4, <2>5 DEF a, b
<1> QED BY <1>1, <1>2

LEMMA SumsWithin ==
    ASSUME NEW fs \in Seq(FindingRecord), NEW on \in SUBSET DOMAIN fs
    PROVE  /\ sumMax(fs, on) \in Nat /\ sumRisk(fs, on) \in Nat /\ sumInfoRisk(fs, on) \in Nat
           /\ sumRisk(fs, on) + sumInfoRisk(fs, on) <= sumMax(fs, on)
<1> DEFINE D == DOMAIN fs
           r == Risks(fs)
           k == Ceilings(fs)
           U == Fails(fs, on) \cup Infos(fs, on)
           V == Ran(fs, on) \ U
<1>1. r \in [D -> Nat] /\ k \in [D -> Nat] /\ \A i \in D : r[i] <= k[i]
  <2>1. \A i \in D : fs[i] \in FindingRecord
    OBVIOUS
  <2> QED BY <2>1, RiskWithinMax DEF Risks, Ceilings
<1>2. IsFiniteSet(D)
  <2>1. PICK n \in Nat : D = 1..n
    OBVIOUS
  <2> QED BY <2>1, FS_Interval
<1>3. /\ Ran(fs, on) \in SUBSET D /\ Fails(fs, on) \in SUBSET D /\ Infos(fs, on) \in SUBSET D
      /\ U \in SUBSET D /\ V \in SUBSET D
      /\ U \cap V = {} /\ U \cup V = Ran(fs, on)
  BY DEF Ran, Fails, Infos
<1>4. /\ IsFiniteSet(Ran(fs, on)) /\ IsFiniteSet(Fails(fs, on)) /\ IsFiniteSet(Infos(fs, on))
      /\ IsFiniteSet(U) /\ IsFiniteSet(V)
  BY <1>2, <1>3, FS_Subset
<1>5. Fails(fs, on) \cap Infos(fs, on) = {}
  BY DEF Fails, Infos, IsFail
<1> HIDE DEF D, r, k
<1>6. Total(r, U) = Total(r, Fails(fs, on)) + Total(r, Infos(fs, on))
  BY <1>1, <1>3, <1>4, <1>5, SumOfUnion
<1> HIDE DEF U, V
<1>7. Total(r, U) <= Total(k, U)
  BY <1>1, <1>3, <1>4, SumBelow
<1>8. Total(k, Ran(fs, on)) = Total(k, U) + Total(k, V)
  <2>1. Total(k, U \cup V) = Total(k, U) + Total(k, V)
    BY <1>1, <1>3, <1>4, SumOfUnion
  <2> QED BY <1>3, <2>1
<1>9. /\ Total(k, U) \in Nat /\ Total(k, V) \in Nat
      /\ Total(r, Fails(fs, on)) \in Nat /\ Total(r, Infos(fs, on)) \in Nat
  BY <1>1, <1>3, <1>4, SumIs
<1> QED BY <1>6, <1>7, <1>8, <1>9 DEF sumMax, sumRisk, sumInfoRisk, r, k

InGroup(fs, g) == {i \in DOMAIN fs : fs[i].group = g}

LEMMA SumByGroup ==
    ASSUME NEW fs \in Seq(FindingRecord), NEW h \in [DOMAIN fs -> Nat],
           NEW S \in SUBSET DOMAIN fs
    PROVE  LET Of(g) == Total(h, S \cap InGroup(fs, g))
           IN Total(h, S) = Of("Exposure") + Of("SupplyChain") + Of("Service")
                            + Of("AIAgent") + Of("MCP")
<1> DEFINE Of(g) == Total(h, S \cap InGroup(fs, g))
           D == DOMAIN fs
           P(g) == S \cap InGroup(fs, g)
           U4 == P("AIAgent") \cup P("MCP")
           U3 == P("Service") \cup U4
           U2 == P("SupplyChain") \cup U3
<1>1. IsFiniteSet(D)
  <2>1. PICK n \in Nat : D = 1..n
    OBVIOUS
  <2> QED BY <2>1, FS_Interval
<1>2. /\ \A g : P(g) \in SUBSET D
      /\ U4 \in SUBSET D /\ U3 \in SUBSET D /\ U2 \in SUBSET D
  OBVIOUS
<1>3. /\ \A g : IsFiniteSet(P(g))
      /\ IsFiniteSet(U4) /\ IsFiniteSet(U3) /\ IsFiniteSet(U2)
  BY <1>1, <1>2, FS_Subset
<1>4. /\ P("AIAgent") \cap P("MCP") = {} /\ P("Service") \cap U4 = {}
      /\ P("SupplyChain") \cap U3 = {} /\ P("Exposure") \cap U2 = {}
  BY DEF InGroup
<1>5. S = P("Exposure") \cup U2
  <2>1. ASSUME NEW i \in S
        PROVE  fs[i].group \in ToSet(GroupOrder)
    <3>1. fs[i] \in FindingRecord
      OBVIOUS
    <3> QED BY <3>1 DEF FindingRecord
  <2>2. ToSet(GroupOrder) \subseteq {"Exposure", "SupplyChain", "Service", "AIAgent", "MCP"}
    BY DEF ToSet, GroupOrder
  <2> QED BY <2>1, <2>2 DEF InGroup
<1>6. \A g : Of(g) = Total(h, P(g)) /\ Of(g) \in Nat
  <2> HIDE DEF P
  <2> QED BY <1>2, <1>3, SumIs DEF P, D
<1> HIDE DEF Of, P, U2, U3, U4, D
<1> USE DEF D
<1>7. Total(h, U4) = Of("AIAgent") + Of("MCP")
  <2>1. Total(h, P("AIAgent") \cup P("MCP")) = Total(h, P("AIAgent")) + Total(h, P("MCP"))
    <3>1. /\ P("AIAgent") \in SUBSET D /\ P("MCP") \in SUBSET D
          /\ IsFiniteSet(P("AIAgent")) /\ IsFiniteSet(P("MCP"))
      BY <1>2, <1>3
    <3> QED BY <1>4, <3>1, SumOfUnion
  <2> QED BY <1>6, <2>1 DEF U4
<1>8. Total(h, U3) = Of("Service") + Total(h, U4)
  <2>1. Total(h, P("Service") \cup U4) = Total(h, P("Service")) + Total(h, U4)
    BY <1>2, <1>3, <1>4, SumOfUnion
  <2> QED BY <1>6, <2>1 DEF U3
<1>9. Total(h, U2) = Of("SupplyChain") + Total(h, U3)
  <2>1. Total(h, P("SupplyChain") \cup U3) = Total(h, P("SupplyChain")) + Total(h, U3)
    BY <1>2, <1>3, <1>4, SumOfUnion
  <2> QED BY <1>6, <2>1 DEF U2
<1>10. Total(h, S) = Of("Exposure") + Total(h, U2)
  <2>1. Total(h, P("Exposure") \cup U2) = Total(h, P("Exposure")) + Total(h, U2)
    BY <1>2, <1>3, <1>4, SumOfUnion
  <2> QED BY <1>5, <1>6, <2>1
<1>11. Total(h, S) = Of("Exposure") + Of("SupplyChain") + Of("Service")
                     + Of("AIAgent") + Of("MCP")
  BY <1>6, <1>7, <1>8, <1>9, <1>10
<1> QED BY <1>11 DEF Of

Groups == {"Exposure", "SupplyChain", "Service", "AIAgent", "MCP"}
OverGroups(h) == h["Exposure"] + h["SupplyChain"] + h["Service"] + h["AIAgent"] + h["MCP"]

LEMMA SumsOfGroups ==
    ASSUME NEW fs \in Seq(FindingRecord)
    PROVE  /\ sumMax(fs, DOMAIN fs) = OverGroups([g \in Groups |-> sumMax(fs, InGroup(fs, g))])
           /\ sumRisk(fs, DOMAIN fs) = OverGroups([g \in Groups |-> sumRisk(fs, InGroup(fs, g))])
           /\ sumInfoRisk(fs, DOMAIN fs)
                = OverGroups([g \in Groups |-> sumInfoRisk(fs, InGroup(fs, g))])
<1> DEFINE all == DOMAIN fs
           r == Risks(fs)
           k == Ceilings(fs)
<1>1. r \in [all -> Nat] /\ k \in [all -> Nat]
  <2>1. \A i \in all : fs[i] \in FindingRecord
    OBVIOUS
  <2> QED BY <2>1, RiskWithinMax DEF Risks, Ceilings
<1>2. /\ Ran(fs, all) \in SUBSET DOMAIN fs /\ Fails(fs, all) \in SUBSET DOMAIN fs
      /\ Infos(fs, all) \in SUBSET DOMAIN fs
  BY DEF Ran, Fails, Infos
<1>3. ASSUME NEW g
      PROVE  /\ Ran(fs, all) \cap InGroup(fs, g) = Ran(fs, InGroup(fs, g))
             /\ Fails(fs, all) \cap InGroup(fs, g) = Fails(fs, InGroup(fs, g))
             /\ Infos(fs, all) \cap InGroup(fs, g) = Infos(fs, InGroup(fs, g))
  BY DEF Ran, Fails, Infos, InGroup
<1> HIDE DEF r, k
<1>4. sumMax(fs, all) = OverGroups([g \in Groups |-> sumMax(fs, InGroup(fs, g))])
  <2>1. LET Of(g) == Total(k, Ran(fs, all) \cap InGroup(fs, g))
        IN Total(k, Ran(fs, all)) = Of("Exposure") + Of("SupplyChain") + Of("Service")
                                      + Of("AIAgent") + Of("MCP")
    BY <1>1, <1>2, SumByGroup
  <2> QED BY <1>3, <2>1 DEF sumMax, k, OverGroups, Groups
<1>5. sumRisk(fs, all) = OverGroups([g \in Groups |-> sumRisk(fs, InGroup(fs, g))])
  <2>1. LET Of(g) == Total(r, Fails(fs, all) \cap InGroup(fs, g))
        IN Total(r, Fails(fs, all)) = Of("Exposure") + Of("SupplyChain") + Of("Service")
                                      + Of("AIAgent") + Of("MCP")
    BY <1>1, <1>2, SumByGroup
  <2> QED BY <1>3, <2>1 DEF sumRisk, r, OverGroups, Groups
<1>6. sumInfoRisk(fs, all) = OverGroups([g \in Groups |-> sumInfoRisk(fs, InGroup(fs, g))])
  <2>1. LET Of(g) == Total(r, Infos(fs, all) \cap InGroup(fs, g))
        IN Total(r, Infos(fs, all)) = Of("Exposure") + Of("SupplyChain") + Of("Service")
                                      + Of("AIAgent") + Of("MCP")
    BY <1>1, <1>2, SumByGroup
  <2> QED BY <1>3, <2>1 DEF sumInfoRisk, r, OverGroups, Groups
<1> QED BY <1>4, <1>5, <1>6

\* If the score of a group with ceiling m, failed risk f and info risk i is at
\* least n, so is that of two such groups together.
Reaches(n, m, f, i) == n * (2 * m) <= 200 * (m - (f + AtMost(i, infoCap))) + m

LEMMA ReachesTogether ==
    ASSUME NEW n \in Nat, NEW m1 \in Nat, NEW f1 \in Nat, NEW i1 \in Nat,
           NEW m2 \in Nat, NEW f2 \in Nat, NEW i2 \in Nat,
           Reaches(n, m1, f1, i1), Reaches(n, m2, f2, i2)
    PROVE  Reaches(n, m1 + m2, f1 + f2, i1 + i2)
<1>1. /\ AtMost(i1 + i2, infoCap) <= AtMost(i1, infoCap) + AtMost(i2, infoCap)
      /\ AtMost(i1, infoCap) \in Nat /\ AtMost(i2, infoCap) \in Nat
      /\ AtMost(i1 + i2, infoCap) \in Nat
  BY DEF AtMost, infoCap, Unit
<1>2. n * (2 * (m1 + m2)) = n * (2 * m1) + n * (2 * m2)
  OBVIOUS
<1>3. n * (2 * m1) \in Nat /\ n * (2 * m2) \in Nat
  OBVIOUS
<1> QED BY <1>1, <1>2, <1>3 DEF Reaches

LEMMA ReachesAll ==
    ASSUME NEW n \in Nat, NEW m \in [Groups -> Nat], NEW f \in [Groups -> Nat],
           NEW i \in [Groups -> Nat], \A g \in Groups : Reaches(n, m[g], f[g], i[g])
    PROVE  Reaches(n, OverGroups(m), OverGroups(f), OverGroups(i))
<1> DEFINE Two(h)   == h["Exposure"] + h["SupplyChain"]
           Three(h) == Two(h) + h["Service"]
           Four(h)  == Three(h) + h["AIAgent"]
<1>1. \A g \in Groups : m[g] \in Nat /\ f[g] \in Nat /\ i[g] \in Nat
  OBVIOUS
<1>2. /\ "Exposure" \in Groups /\ "SupplyChain" \in Groups /\ "Service" \in Groups
      /\ "AIAgent" \in Groups /\ "MCP" \in Groups
  BY DEF Groups
<1>3. Two(m) \in Nat /\ Two(f) \in Nat /\ Two(i) \in Nat
  BY <1>1, <1>2
<1>4. Reaches(n, Two(m), Two(f), Two(i))
  BY <1>1, <1>2, ReachesTogether
<1> HIDE DEF Two
<1>5. Three(m) \in Nat /\ Three(f) \in Nat /\ Three(i) \in Nat
  BY <1>1, <1>2, <1>3
<1>6. Reaches(n, Three(m), Three(f), Three(i))
  BY <1>1, <1>2, <1>3, <1>4, ReachesTogether
<1> HIDE DEF Three
<1>7. Four(m) \in Nat /\ Four(f) \in Nat /\ Four(i) \in Nat
  BY <1>1, <1>2, <1>5
<1>8. Reaches(n, Four(m), Four(f), Four(i))
  BY <1>1, <1>2, <1>5, <1>6, ReachesTogether
<1> HIDE DEF Four
<1>9. Reaches(n, Four(m) + m["MCP"], Four(f) + f["MCP"], Four(i) + i["MCP"])
  BY <1>1, <1>2, <1>7, <1>8, ReachesTogether
<1> QED BY <1>9 DEF OverGroups, Four, Three, Two

LEMMA ReachesMeans ==
    ASSUME NEW n \in Nat, NEW m \in Nat, NEW f \in Nat, NEW i \in Nat, f + i <= m, m > 0
    PROVE  n <= Numeric(m, f + AtMost(i, infoCap)) <=> Reaches(n, m, f, i)
<1> DEFINE r == f + AtMost(i, infoCap)
<1>1. r \in Nat /\ r <= m
  BY DEF AtMost, infoCap, Unit
<1>2. AtMost(r, m) = r
  BY <1>1 DEF AtMost
<1> HIDE DEF r
<1>3. n <= Numeric(m, r) <=> n * (2 * m) <= 200 * (m - AtMost(r, m)) + m
  BY <1>1, NumericReaches
<1> QED BY <1>2, <1>3 DEF Reaches, r

\* ComputeV2: the overall score is never below the lowest sub-score: the risks of the
\* groups add up, and the cap on info findings weighs on all of them at least as much
\* as on each.
THEOREM NoBetterThanEveryGroup == Spec => []NotBelowWorstGroup
<1>1. PipelineInv => NotBelowWorstGroup
  <2> SUFFICES ASSUME PipelineInv, stage = "done", DOMAIN result.subs # {},
                      \A g \in DOMAIN result.subs : ~(result.subs[g] <= result.numeric)
               PROVE  FALSE
    BY DEF NotBelowWorstGroup
  <2> DEFINE fs  == applyKEVFatal(findings)
             all == DOMAIN fs
             n   == result.numeric + 1
             Of(g) == InGroup(fs, g)
  <2>1. findings \in Seq(FindingRecord) /\ result = ComputeV2(findings)
    BY DEF PipelineInv, TypeOK
  <2>2. fs \in Seq(FindingRecord)
    BY <2>1, KEVOnlyAddsFatal
  <2>3. result.numeric = computeNumeric(fs, all) /\ result.subs = computeSubScores(fs)
    BY <2>1 DEF ComputeV2
  <2> HIDE DEF fs
  <2>4. \A g : Of(g) \in SUBSET DOMAIN fs
    BY DEF InGroup
  <2>5. /\ DOMAIN result.subs = {f.group : f \in ToSet(fs)} \cap ToSet(GroupOrder)
        /\ \A g \in DOMAIN result.subs : result.subs[g] = computeNumeric(fs, Of(g))
    BY <2>3 DEF computeSubScores, InGroup
  <2> HIDE DEF Of, all
  <2>6. /\ sumMax(fs, all) \in Nat /\ sumRisk(fs, all) \in Nat /\ sumInfoRisk(fs, all) \in Nat
        /\ sumRisk(fs, all) + sumInfoRisk(fs, all) <= sumMax(fs, all)
    BY <2>2, SumsWithin DEF all
  <2>7. ASSUME NEW g
        PROVE  /\ sumMax(fs, Of(g)) \in Nat /\ sumRisk(fs, Of(g)) \in Nat
               /\ sumInfoRisk(fs, Of(g)) \in Nat
               /\ sumRisk(fs, Of(g)) + sumInfoRisk(fs, Of(g)) <= sumMax(fs, Of(g))
    BY <2>2, <2>4, SumsWithin
  <2>8. \A i \in Nat : AtMost(i, infoCap) \in Nat
    BY DEF AtMost, infoCap, Unit
  <2>9. n \in Nat /\ n > result.numeric /\ result.numeric \in 0..100
    <3>1. result.numeric
            = Numeric(sumMax(fs, all), sumRisk(fs, all) + AtMost(sumInfoRisk(fs, all), infoCap))
      BY <2>3, NumericOf
    <3>2. sumRisk(fs, all) + AtMost(sumInfoRisk(fs, all), infoCap) \in Nat
      BY <2>6, <2>8
    <3>3. result.numeric \in 0..100
      BY <2>6, <3>1, <3>2, NumericReaches
    <3> QED BY <3>3
  <2> HIDE DEF n
  <2>10. ASSUME NEW g \in DOMAIN result.subs
         PROVE  result.subs[g] \in 0..100 /\ n <= result.subs[g]
    <3>1. result.subs[g]
            = Numeric(sumMax(fs, Of(g)), sumRisk(fs, Of(g)) + AtMost(sumInfoRisk(fs, Of(g)), infoCap))
      BY <2>5, NumericOf
    <3>2. sumRisk(fs, Of(g)) + AtMost(sumInfoRisk(fs, Of(g)), infoCap) \in Nat
      BY <2>7, <2>8
    <3>3. Numeric(sumMax(fs, Of(g)), sumRisk(fs, Of(g)) + AtMost(sumInfoRisk(fs, Of(g)), infoCap)) \in 0..100
      BY <2>7, <3>2, NumericReaches
    <3> QED BY <2>9, <3>1, <3>3 DEF n
  <2>11. ASSUME NEW g \in ToSet(GroupOrder)
         PROVE  Reaches(n, sumMax(fs, Of(g)), sumRisk(fs, Of(g)), sumInfoRisk(fs, Of(g)))
    <3>1. CASE sumMax(fs, Of(g)) = 0
      <4>1. sumRisk(fs, Of(g)) = 0 /\ sumInfoRisk(fs, Of(g)) = 0
        BY <2>7, <3>1
      <4> QED BY <2>9, <3>1, <4>1 DEF Reaches, AtMost, infoCap, Unit
    <3>2. CASE sumMax(fs, Of(g)) > 0
      <4>1. Of(g) # {}
        <5> SUFFICES ASSUME Of(g) = {} PROVE FALSE
          OBVIOUS
        <5>1. Ran(fs, Of(g)) = {}
          BY DEF Ran
        <5>2. Ceilings(fs) \in [DOMAIN fs -> Nat]
          <6>1. \A i \in DOMAIN fs : fs[i] \in FindingRecord
            BY <2>2
          <6> QED BY <6>1, RiskWithinMax DEF Ceilings
        <5>3. sumMax(fs, Of(g)) = 0
          BY <5>1, <5>2, SumOfNone DEF sumMax
        <5> QED BY <3>2, <5>3
      <4>2. g \in DOMAIN result.subs
        BY <2>2, <2>5, <4>1 DEF Of, InGroup, ToSet
      <4>3. n <= Numeric(sumMax(fs, Of(g)), sumRisk(fs, Of(g)) + AtMost(sumInfoRisk(fs, Of(g)), infoCap))
        BY <2>5, <2>10, <4>2, NumericOf
      <4> QED BY <2>7, <2>9, <3>2, <4>3, ReachesMeans
    <3> QED BY <2>7, <3>1, <3>2
  <2>12. Reaches(n, sumMax(fs, all), sumRisk(fs, all), sumInfoRisk(fs, all))
    <3> DEFINE m == [g \in Groups |-> sumMax(fs, Of(g))]
               f == [g \in Groups |-> sumRisk(fs, Of(g))]
               i == [g \in Groups |-> sumInfoRisk(fs, Of(g))]
    <3>1. \A g \in Groups : g \in ToSet(GroupOrder)
      BY DEF ToSet, GroupOrder, Groups
    <3>2. m \in [Groups -> Nat] /\ f \in [Groups -> Nat] /\ i \in [Groups -> Nat]
      BY <2>7
    <3>3. \A g \in Groups : Reaches(n, m[g], f[g], i[g])
      BY <2>11, <3>1
    <3>4. /\ sumMax(fs, all) = OverGroups(m) /\ sumRisk(fs, all) = OverGroups(f)
          /\ sumInfoRisk(fs, all) = OverGroups(i)
      BY <2>2, SumsOfGroups DEF all, Of
    <3> HIDE DEF m, f, i
    <3> QED BY <2>9, <3>2, <3>3, <3>4, ReachesAll
  <2>13. sumMax(fs, all) > 0
    <3> SUFFICES ASSUME sumMax(fs, all) = 0 PROVE FALSE
      BY <2>6
    <3>1. result.numeric
            = Numeric(sumMax(fs, all), sumRisk(fs, all) + AtMost(sumInfoRisk(fs, all), infoCap))
      BY <2>3, NumericOf
    <3>2. result.numeric = 100
      BY <3>1 DEF Numeric
    <3> QED BY <2>9, <2>10, <3>2 DEF n
  <2>14. n <= Numeric(sumMax(fs, all), sumRisk(fs, all) + AtMost(sumInfoRisk(fs, all), infoCap))
    BY <2>6, <2>9, <2>12, <2>13, ReachesMeans
  <2> QED BY <2>3, <2>9, <2>14, NumericOf
<1> QED BY <1>1, Pipeline, PTL
=============================================================================
