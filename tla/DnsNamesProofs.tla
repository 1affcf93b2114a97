---------------------------- MODULE DnsNamesProofs ----------------------------
(***************************************************************************)
(* Facts about zone names: what it means for one to lie in the scope of    *)
(* another, and for which names the validation of a rule's pattern is      *)
(* right although it tries one label only.                                 *)
(***************************************************************************)
EXTENDS DnsNames, TLAPS

\* One name ends with the other, whatever the case.
EndsWith(z, s) ==
  /\ Len(s) <= Len(z)
  /\ \A i \in 1 .. Len(s) : Lower[z[Len(z) - Len(s) + i]] = Lower[s[i]]

Lowered(L) == {Lower[l] : l \in L}

LEMMA InLowerSeq ==
  ASSUME NEW L, NEW z \in Seq(L)
  PROVE  /\ InLower(z) \in Seq(Lowered(L))
         /\ Len(InLower(z)) = Len(z)
         /\ \A i \in 1 .. Len(z) : InLower(z)[i] = Lower[z[i]]
BY DEF InLower, Lowered

LEMMA SameSequence ==
  ASSUME NEW S, NEW s \in Seq(S), NEW t \in Seq(S)
  PROVE  s = t <=> Len(s) = Len(t) /\ \A i \in 1 .. Len(s) : s[i] = t[i]
OBVIOUS

LEMMA InLowerEqual ==
  ASSUME NEW L, NEW z \in Seq(L), NEW s \in Seq(L)
  PROVE  InLower(z) = InLower(s) <=> Len(z) = Len(s) /\ EndsWith(z, s)
<1> DEFINE lz == InLower(z)
           ls == InLower(s)
<1>1. /\ ls \in Seq(Lowered(L)) /\ Len(ls) = Len(s)
      /\ \A i \in 1 .. Len(s) : ls[i] = Lower[s[i]]
      /\ lz \in Seq(Lowered(L)) /\ Len(lz) = Len(z)
      /\ \A i \in 1 .. Len(z) : lz[i] = Lower[z[i]]
  BY InLowerSeq
<1>2. Len(s) \in Nat /\ Len(z) \in Nat
  OBVIOUS
<1> HIDE DEF ls, lz
<1>3. lz = ls <=> Len(lz) = Len(ls) /\ \A i \in 1 .. Len(lz) : lz[i] = ls[i]
  BY <1>1, SameSequence
<1>4. Len(z) = Len(s) => \A i \in 1 .. Len(s) : Len(z) - Len(s) + i = i
  BY <1>2
<1>5. Len(z) = Len(s) =>
        (EndsWith(z, s) <=> \A i \in 1 .. Len(s) : Lower[z[i]] = Lower[s[i]])
  BY <1>2, <1>4 DEF EndsWith
<1>6. QED
  BY <1>1, <1>3, <1>5 DEF ls, lz

\* The library's suffix, position by position.
LEMMA SuffixPositions ==
  ASSUME NEW S, NEW s \in Seq(S), NEW t \in Seq(S)
  PROVE  IsSuffix(s, t) <=>
           /\ Len(s) <= Len(t)
           /\ \A i \in 1 .. Len(s) : t[Len(t) - Len(s) + i] = s[i]
<1> DEFINE m == Len(s)
           n == Len(t)
           rs == Reverse(s)
           rt == Reverse(t)
<1>1. m \in Nat /\ n \in Nat
  OBVIOUS
<1>2. /\ rs \in Seq(S) /\ Len(rs) = m /\ \A i \in 1 .. m : rs[i] = s[m - i + 1]
      /\ rt \in Seq(S) /\ Len(rt) = n /\ \A i \in 1 .. n : rt[i] = t[n - i + 1]
  BY DEF Reverse
<1> HIDE DEF rs, rt
<1>3. ASSUME m <= n
      PROVE  SubSeq(rs, 1, m) = SubSeq(rt, 1, m) <=> \A i \in 1 .. m : rs[i] = rt[i]
  BY <1>1, <1>2, <1>3
<1>4. ASSUME m <= n
      PROVE  (\A i \in 1 .. m : rs[i] = rt[i])
               <=> \A i \in 1 .. m : t[n - m + i] = s[i]
  <2>1. ASSUME \A i \in 1 .. m : rs[i] = rt[i], NEW i \in 1 .. m
        PROVE  t[n - m + i] = s[i]
    <3>1. m - i + 1 \in 1 .. m /\ m - i + 1 \in 1 .. n
      BY <1>1, <1>4
    <3>2. m - (m - i + 1) + 1 = i /\ n - (m - i + 1) + 1 = n - m + i
      BY <1>1
    <3>3. QED
      BY <1>2, <2>1, <3>1, <3>2
  <2>2. ASSUME \A i \in 1 .. m : t[n - m + i] = s[i], NEW i \in 1 .. m
        PROVE  rs[i] = rt[i]
    <3>1. m - i + 1 \in 1 .. m /\ i \in 1 .. n
      BY <1>1, <1>4
    <3>2. n - m + (m - i + 1) = n - i + 1
      BY <1>1
    <3>3. QED
      BY <1>2, <2>2, <3>1, <3>2
  <2>3. QED
    BY <2>1, <2>2
<1>5. QED
  BY <1>1, <1>2, <1>3, <1>4 DEF IsSuffix, IsPrefix, rs, rt

LEMMA SubdomainEndsWith ==
  ASSUME NEW L, NEW z \in Seq(L), NEW s \in Seq(L)
  PROVE  isSubdomainOf(z, s) <=> s # <<>> /\ EndsWith(z, s) /\ Len(s) # Len(z)
<1> DEFINE ls == InLower(s)
           lz == InLower(z)
<1>1. /\ ls \in Seq(Lowered(L)) /\ Len(ls) = Len(s)
      /\ \A i \in 1 .. Len(s) : ls[i] = Lower[s[i]]
      /\ lz \in Seq(Lowered(L)) /\ Len(lz) = Len(z)
      /\ \A i \in 1 .. Len(z) : lz[i] = Lower[z[i]]
  BY InLowerSeq
<1>2. Len(s) \in Nat /\ Len(z) \in Nat
  OBVIOUS
<1> HIDE DEF ls, lz
<1>3. IsSuffix(ls, lz) <=> EndsWith(z, s)
  <2> DEFINE S == Lowered(L)
  <2>0. ls \in Seq(S) /\ lz \in Seq(S)
    BY <1>1
  <2> HIDE DEF S
  <2>1. IsSuffix(ls, lz) <=>
          /\ Len(ls) <= Len(lz)
          /\ \A i \in 1 .. Len(ls) : lz[Len(lz) - Len(ls) + i] = ls[i]
    BY <2>0, SuffixPositions
  <2>2. Len(s) <= Len(z) =>
          \A i \in 1 .. Len(s) :
            lz[Len(z) - Len(s) + i] = Lower[z[Len(z) - Len(s) + i]]
    BY <1>1, <1>2
  <2>3. QED
    BY <1>1, <2>1, <2>2 DEF EndsWith
<1>4. EndsWith(z, s) => (ls # lz <=> Len(s) # Len(z))
  BY InLowerEqual DEF ls, lz
<1>5. QED
  BY <1>3, <1>4 DEF isSubdomainOf, IsStrictSuffix, ls, lz

\* A zone is in scope of itself, and of what it ends with; the empty name has
\* nothing in its scope but itself.
LEMMA ScopeEndsWith ==
  ASSUME NEW L, NEW z \in Seq(L), NEW s \in Seq(L)
  PROVE  zoneInScope(z, s) <=> EndsWith(z, s) /\ (s = <<>> => z = <<>>)
<1>1. InLower(z) = InLower(s) <=> Len(z) = Len(s) /\ EndsWith(z, s)
  BY InLowerEqual
<1>2. s = <<>> => (z = <<>> <=> Len(z) = Len(s))
  OBVIOUS
<1>3. QED
  BY <1>1, <1>2, SubdomainEndsWith DEF zoneInScope, EndsWith

\* What lies in the scope of a zone lies in every scope the zone lies in.
LEMMA ScopeTransitive ==
  ASSUME NEW L, NEW x \in Seq(L), NEW y \in Seq(L), NEW z \in Seq(L),
         zoneInScope(x, y), zoneInScope(y, z)
  PROVE  zoneInScope(x, z)
<1>1. Len(x) \in Nat /\ Len(y) \in Nat /\ Len(z) \in Nat
  OBVIOUS
<1>2. EndsWith(x, y) /\ EndsWith(y, z)
  BY ScopeEndsWith
<1>3. ASSUME NEW i \in 1 .. Len(z)
      PROVE  Lower[x[Len(x) - Len(z) + i]] = Lower[z[i]]
  <2>1. Len(y) - Len(z) + i \in 1 .. Len(y)
    BY <1>1, <1>2 DEF EndsWith
  <2>2. Len(x) - Len(y) + (Len(y) - Len(z) + i) = Len(x) - Len(z) + i
    BY <1>1
  <2>3. QED
    BY <1>2, <2>1, <2>2 DEF EndsWith
<1>4. EndsWith(x, z)
  BY <1>1, <1>2, <1>3 DEF EndsWith
<1>5. QED
  BY <1>4, ScopeEndsWith

LEMMA SubdomainInScope ==
  ASSUME NEW L, NEW z \in Seq(L), NEW s \in Seq(L), isSubdomainOf(z, s)
  PROVE  zoneInScope(z, s)
BY DEF zoneInScope

LEMMA ExpandName ==
  ASSUME NEW L, NEW pattern \in Seq(L), NEW label \in L
  PROVE  /\ Expand(pattern, label) \in Seq(L)
         /\ Len(Expand(pattern, label)) = Len(pattern)
         /\ \A i \in 1 .. Len(pattern) :
              Expand(pattern, label)[i] =
                IF pattern[i] = "%u" THEN label ELSE pattern[i]
BY DEF Expand

\* The label that the validation tries.
Probe == "a"

\* "%u expands to a user label; any label keeps the suffix relationship intact":
\* a pattern that validates expands to a zone of its SOA for every user, as long as
\* the SOA has no label that is the one the validation tries.
THEOREM ValidPatternsStayWithinSoa ==
  ASSUME NEW pattern \in Seq(STRING), NEW soa \in Seq(STRING), NEW label \in STRING,
         \A i \in DOMAIN soa : Lower[soa[i]] # Lower[Probe],
         validatePatternWithinSoa(pattern, soa)
  PROVE  zoneInScope(Expand(pattern, label), soa)
<1> DEFINE tried == Expand(pattern, "a")
           zone  == Expand(pattern, label)
           shift == Len(pattern) - Len(soa)
           L     == STRING \cup {"a"}
<1>0. /\ pattern \in Seq(L) /\ soa \in Seq(L) /\ "a" \in L /\ label \in L
  OBVIOUS
<1>1. /\ soa # <<>> /\ zoneInScope(tried, soa)
  BY DEF validatePatternWithinSoa
<1>2. /\ tried \in Seq(L) /\ Len(tried) = Len(pattern)
      /\ \A i \in 1 .. Len(pattern) :
           tried[i] = IF pattern[i] = "%u" THEN "a" ELSE pattern[i]
  BY <1>0, ExpandName
<1>3. /\ zone \in Seq(L) /\ Len(zone) = Len(pattern)
      /\ \A i \in 1 .. Len(pattern) :
           zone[i] = IF pattern[i] = "%u" THEN label ELSE pattern[i]
  BY <1>0, ExpandName
<1> HIDE DEF tried, zone, L
<1>4. EndsWith(tried, soa)
  BY <1>0, <1>1, <1>2, ScopeEndsWith
<1>5. Len(soa) \in Nat /\ Len(pattern) \in Nat /\ DOMAIN soa = 1 .. Len(soa)
  OBVIOUS
<1>6. ASSUME NEW i \in 1 .. Len(soa)
      PROVE  Lower[zone[shift + i]] = Lower[soa[i]]
  <2>1. shift + i \in 1 .. Len(pattern)
    BY <1>2, <1>4, <1>5 DEF EndsWith
  <2>2. Lower[tried[shift + i]] = Lower[soa[i]]
    BY <1>2, <1>4 DEF EndsWith
  <2>3. pattern[shift + i] # "%u"
    BY <1>2, <1>5, <2>1, <2>2 DEF Probe
  <2>4. QED
    BY <1>2, <1>3, <2>1, <2>2, <2>3
<1>7. EndsWith(zone, soa)
  BY <1>2, <1>3, <1>4, <1>6 DEF EndsWith
<1>8. QED
  BY <1>0, <1>1, <1>3, <1>7, ScopeEndsWith DEF zone

\* Of two names that a third one ends with, the longer ends with the shorter.
LEMMA CommonEnd ==
  ASSUME NEW L, NEW x \in Seq(L), NEW y \in Seq(L), NEW z \in Seq(L),
         EndsWith(x, y), EndsWith(x, z), Len(z) <= Len(y)
  PROVE  EndsWith(y, z)
<1>1. Len(x) \in Nat /\ Len(y) \in Nat /\ Len(z) \in Nat
  OBVIOUS
<1>2. ASSUME NEW i \in 1 .. Len(z)
      PROVE  Lower[y[Len(y) - Len(z) + i]] = Lower[z[i]]
  <2>1. Len(y) - Len(z) + i \in 1 .. Len(y)
    BY <1>1
  <2>2. Len(x) - Len(y) + (Len(y) - Len(z) + i) = Len(x) - Len(z) + i
    BY <1>1
  <2>3. Lower[x[Len(x) - Len(y) + (Len(y) - Len(z) + i)]] = Lower[y[Len(y) - Len(z) + i]]
    BY <2>1 DEF EndsWith
  <2>4. QED
    BY <2>2, <2>3 DEF EndsWith
<1>3. QED
  BY <1>2 DEF EndsWith

\* What ZonePolicy assumes of Below is so for the suffix test of names, as long as no
\* two names in play differ in case only (isSubdomainOf).
THEOREM SubdomainsAreOrdered ==
  ASSUME NEW L, NEW Z \in SUBSET Seq(L),
         \A y, z \in Z : InLower(y) = InLower(z) => y = z
  PROVE  LET below == {pair \in Z \X Z : isSubdomainOf(pair[1], pair[2])}
         IN  /\ below \subseteq Z \X Z
             /\ \A z \in Z : <<z, z>> \notin below
             /\ \A x, y, z \in Z :
                  <<x, y>> \in below /\ <<y, z>> \in below => <<x, z>> \in below
             /\ \A x, y, z \in Z :
                  /\ <<x, y>> \in below
                  /\ <<x, z>> \in below
                  => y = z \/ <<y, z>> \in below \/ <<z, y>> \in below
<1> DEFINE below == {pair \in Z \X Z : isSubdomainOf(pair[1], pair[2])}
<1>1. \A x, y \in Z :
        <<x, y>> \in below <=> y # <<>> /\ EndsWith(x, y) /\ Len(y) # Len(x)
  <2> SUFFICES ASSUME NEW x \in Z, NEW y \in Z
               PROVE  <<x, y>> \in below <=> y # <<>> /\ EndsWith(x, y) /\ Len(y) # Len(x)
    OBVIOUS
  <2>1. x \in Seq(L) /\ y \in Seq(L)
    OBVIOUS
  <2>2. <<x, y>> \in below <=> isSubdomainOf(x, y)
    OBVIOUS
  <2>3. QED
    BY <2>1, <2>2, SubdomainEndsWith
<1>2. \A z \in Z : Len(z) \in Nat
  OBVIOUS
<1>3. below \subseteq Z \X Z
  OBVIOUS
<1> HIDE DEF below
<1>4. \A z \in Z : <<z, z>> \notin below
  BY <1>1
<1>5. ASSUME NEW x \in Z, NEW y \in Z, NEW z \in Z, <<x, y>> \in below, <<y, z>> \in below
      PROVE  <<x, z>> \in below
  <2>1. EndsWith(x, y) /\ EndsWith(y, z) /\ y # <<>> /\ z # <<>>
    BY <1>1, <1>5
  <2>2. zoneInScope(x, y) /\ zoneInScope(y, z)
    BY <2>1, ScopeEndsWith
  <2>3. EndsWith(x, z)
    BY <2>2, ScopeTransitive, ScopeEndsWith
  <2>4. Len(z) # Len(x)
    BY <1>1, <1>2, <1>5, <2>1 DEF EndsWith
  <2>5. QED
    BY <1>1, <2>1, <2>3, <2>4
<1>6. ASSUME NEW x \in Z, NEW y \in Z, NEW z \in Z, <<x, y>> \in below, <<x, z>> \in below
      PROVE  y = z \/ <<y, z>> \in below \/ <<z, y>> \in below
  <2>1. EndsWith(x, y) /\ EndsWith(x, z) /\ y # <<>> /\ z # <<>>
    BY <1>1, <1>6
  <2>2. ASSUME Len(y) = Len(z) PROVE y = z
    <3>1. EndsWith(y, z)
      BY <1>2, <2>1, <2>2, CommonEnd
    <3>2. InLower(y) = InLower(z)
      BY <2>2, <3>1, InLowerEqual
    <3>3. QED
      BY <3>2
  <2>3. ASSUME Len(z) < Len(y) PROVE <<y, z>> \in below
    BY <1>1, <1>2, <2>1, <2>3, CommonEnd
  <2>4. ASSUME Len(y) < Len(z) PROVE <<z, y>> \in below
    BY <1>1, <1>2, <2>1, <2>4, CommonEnd
  <2>5. QED
    BY <1>2, <2>2, <2>3, <2>4
<1>7. QED
  BY <1>3, <1>4, <1>5, <1>6 DEF below

\* The name that is left of a zone from its i-th label on.
LEMMA ParentName ==
  ASSUME NEW L, NEW zone \in Seq(L), NEW i \in 1 .. Len(zone)
  PROVE  LET parent == SubSeq(zone, i, Len(zone))
         IN  /\ parent \in Seq(L)
             /\ Len(parent) = Len(zone) - i + 1
             /\ \A k \in 1 .. Len(zone) - i + 1 : parent[k] = zone[i + k - 1]
OBVIOUS

LEMMA ParentOfParent ==
  ASSUME NEW L, NEW zone \in Seq(L), NEW i \in 1 .. Len(zone) - 1
  PROVE  Tail(SubSeq(zone, i, Len(zone))) = SubSeq(zone, i + 1, Len(zone))
OBVIOUS

\* The zones to ensure for a zone below its SOA: exactly the parents of the zone that
\* are at or below the SOA, each followed by one with one more label; none at all if
\* the zone, as it is spelled, is not at or below the SOA.
THEOREM AuthoritativeZonesBetween ==
  ASSUME NEW L, NEW zone \in Seq(L), NEW soa \in Seq(L), soa # <<>>
  PROVE  LET chain    == getAuthoritativeZones(zone, soa)
             suffixes == {SubSeq(zone, i, Len(zone)) : i \in 1 .. Len(zone)}
         IN  \/ /\ {chain[i] : i \in DOMAIN chain} =
                     {s \in suffixes : zoneInScope(s, soa)}
                /\ \A i \in 1 .. Len(chain) - 1 : chain[i] = Tail(chain[i + 1])
             \/ chain = <<>> /\ ~IsSuffix(soa, zone)
<1> DEFINE m == Len(soa)
           n == Len(zone)
           extra == n - m
           Parent(i) == SubSeq(zone, i, n)
           chain == getAuthoritativeZones(zone, soa)
           suffixes == {Parent(i) : i \in 1 .. n}
<1>1. CASE ~IsSuffix(soa, zone)
  BY <1>1 DEF getAuthoritativeZones
<1>2. ASSUME IsSuffix(soa, zone)
      PROVE  /\ {chain[i] : i \in DOMAIN chain} = {s \in suffixes : zoneInScope(s, soa)}
             /\ \A i \in 1 .. Len(chain) - 1 : chain[i] = Tail(chain[i + 1])
  <2>1. /\ m \in Nat /\ n \in Nat /\ 1 <= m /\ m <= n /\ extra \in Nat
        /\ \A i \in 1 .. m : zone[n - m + i] = soa[i]
    BY <1>2, SuffixPositions
  <2>2. chain = [k \in 1 .. (extra + 1) |-> Parent(extra - k + 2)]
    BY <1>2 DEF getAuthoritativeZones
  <2>3. ASSUME NEW i \in 1 .. n
        PROVE  zoneInScope(Parent(i), soa) <=> i <= extra + 1
    <3>1. /\ Parent(i) \in Seq(L) /\ Len(Parent(i)) = n - i + 1
          /\ \A k \in 1 .. n - i + 1 : Parent(i)[k] = zone[i + k - 1]
      BY ParentName
    <3> HIDE DEF Parent
    <3>2. zoneInScope(Parent(i), soa) <=> EndsWith(Parent(i), soa)
      BY <3>1, ScopeEndsWith
    <3>3. m <= n - i + 1 <=> i <= extra + 1
      BY <2>1
    <3>4. ASSUME m <= n - i + 1, NEW k \in 1 .. m
          PROVE  Parent(i)[(n - i + 1) - m + k] = soa[k]
      <4>1. (n - i + 1) - m + k \in 1 .. n - i + 1
        BY <2>1, <3>4
      <4>2. i + ((n - i + 1) - m + k) - 1 = n - m + k
        BY <2>1
      <4>3. Parent(i)[(n - i + 1) - m + k] = zone[i + ((n - i + 1) - m + k) - 1]
        BY <3>1, <4>1
      <4>4. QED
        BY <2>1, <4>2, <4>3
    <3>5. QED
      BY <3>1, <3>2, <3>3, <3>4 DEF EndsWith
  <2>4. \A s \in suffixes : zoneInScope(s, soa) <=> \E i \in 1 .. (extra + 1) : s = Parent(i)
    <3>1. ASSUME NEW i \in 1 .. n, zoneInScope(Parent(i), soa)
          PROVE  i \in 1 .. (extra + 1)
      BY <2>1, <2>3, <3>1
    <3>2. ASSUME NEW i \in 1 .. (extra + 1)
          PROVE  zoneInScope(Parent(i), soa)
      BY <2>1, <2>3
    <3> HIDE DEF Parent
    <3>3. QED
      BY <3>1, <3>2
  <2>5. \A i \in 1 .. (extra + 1) :
          /\ i \in 1 .. n /\ extra - i + 2 \in 1 .. (extra + 1)
          /\ extra - (extra - i + 2) + 2 = i
    BY <2>1
  <2>6. DOMAIN chain = 1 .. (extra + 1) /\ Len(chain) = extra + 1
    BY <2>1, <2>2
  <2>7. \A k \in 1 .. (extra + 1) : chain[k] = Parent(extra - k + 2)
    BY <2>2
  <2>8. ASSUME NEW i \in 1 .. extra
        PROVE  chain[i] = Tail(chain[i + 1])
    <3>1. /\ i \in 1 .. (extra + 1) /\ i + 1 \in 1 .. (extra + 1)
          /\ extra - (i + 1) + 2 \in 1 .. n - 1
          /\ extra - (i + 1) + 2 + 1 = extra - i + 2
      BY <2>1
    <3>2. Tail(Parent(extra - (i + 1) + 2)) = Parent(extra - (i + 1) + 2 + 1)
      BY <3>1, ParentOfParent
    <3>3. QED
      BY <2>7, <3>1, <3>2
  <2>9. {chain[i] : i \in DOMAIN chain} = {s \in suffixes : zoneInScope(s, soa)}
    <3> HIDE DEF Parent, chain
    <3>1. {chain[i] : i \in DOMAIN chain} = {Parent(i) : i \in 1 .. (extra + 1)}
      <4>1. ASSUME NEW k \in 1 .. (extra + 1)
            PROVE  \E i \in 1 .. (extra + 1) : chain[k] = Parent(i)
        BY <2>5, <2>7
      <4>2. ASSUME NEW i \in 1 .. (extra + 1)
            PROVE  \E k \in 1 .. (extra + 1) : chain[k] = Parent(i)
        <5>1. /\ extra - i + 2 \in 1 .. (extra + 1)
              /\ chain[extra - i + 2] = Parent(extra - (extra - i + 2) + 2)
          BY <2>5, <2>7
        <5>2. extra - (extra - i + 2) + 2 = i
          BY <2>5
        <5>3. QED
          BY <5>1, <5>2
      <4>3. QED
        BY <2>6, <4>1, <4>2
    <3>2. {Parent(i) : i \in 1 .. (extra + 1)} \subseteq suffixes
      BY <2>5
    <3>3. QED
      BY <2>4, <3>1, <3>2
  <2>10. Len(chain) - 1 = extra
    BY <2>1, <2>6
  <2>11. QED
    BY <2>8, <2>9, <2>10
<1>3. QED
  BY <1>1, <1>2

===============================================================================
