---------------------------- MODULE MCPolicyAdmin -----------------------------
(* A site with a part "lab" of it that is delegated to dan.                    *)
EXTENDS PolicyAdmin, TLC

ProcSymmetry == Permutations(Procs)

Users3 == {"root", "dan", "ann"}
Root   == {"root"}

\* The label of an e-mail address.
Labels3 == [u \in Users3 |-> u]

AllLabels == {"site", "lab", "LAB", "www", "a", "%u"} \cup Users3
LowerOf   == [l \in AllLabels |-> IF l = "LAB" THEN "lab" ELSE l]

Site == <<"site">>
Lab  == <<"lab", "site">>
WWW  == <<"www", "site">>
ForA == <<"a", "site">>

DraftOf(pattern, soa, sub, wellFormed) ==
  [pattern |-> pattern, soa |-> soa, users |-> {"ann"}, sub |-> sub,
   share |-> FALSE, wellFormed |-> wellFormed]

\* Zones inside and outside the delegated part, under either SOA, one spelled in
\* another case; a pattern outside its SOA and one that is not a name.
Everyones == DraftOf(<<"%u", "lab", "site">>, Lab, TRUE, TRUE)
Outside   == DraftOf(WWW, Site, TRUE, TRUE)
Above     == DraftOf(<<"www", "lab", "site">>, Site, FALSE, TRUE)
OtherCase == DraftOf(<<"www", "LAB", "site">>, Lab, FALSE, TRUE)
Beyond    == DraftOf(WWW, Lab, FALSE, TRUE)
Malformed == DraftOf(<<"www", "lab", "site">>, Lab, FALSE, FALSE)

SomeDrafts == {Everyones, Outside, Above, OtherCase, Beyond, Malformed}

\* A rule whose SOA begins with the label that the validation expands "%u" to.
SoaNamedA == {DraftOf(<<"%u", "site">>, ForA, FALSE, TRUE), Everyones}

TwoRules == <<Outside, Everyones>>
NoRules  == <<>>

GrantOf(suffix) == [users |-> {"dan"}, suffix |-> suffix, wellFormed |-> TRUE]

SomeGrants == {GrantOf(Lab), GrantOf(WWW), GrantOf(<<>>)}

LabToDan == <<GrantOf(Lab)>>

SomeNames ==
  {Site, Lab, WWW, <<"ann", "lab", "site">>, <<"www", "lab", "site">>,
   <<"www", "LAB", "site">>, <<"www", "ann", "lab", "site">>, <<"ann", "www", "site">>}

===============================================================================
