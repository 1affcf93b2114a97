---------------------------- MODULE MCZoneService -----------------------------
(***************************************************************************)
(* Small instances of ZoneService: one SOA zone "p", a base zone "a.p"     *)
(* below it and a subzone "x.a.p".                                         *)
(***************************************************************************)
EXTENDS ZoneAgreement, TLC

ProcSymmetry == Permutations(Procs)

Nobody == ""
Users2 == {"ann", "bob", Nobody}
Users3 == Users2 \cup {"cay"}

Zones3 == {"p", "a.p", "x.a.p"}
Below3 == {<<"a.p", "p">>, <<"x.a.p", "p">>, <<"x.a.p", "a.p">>}

\* The base zone as its own SOA, for the runs that need fewer zones.
Zones2 == {"a.p", "x.a.p"}
Below2 == {<<"x.a.p", "a.p">>}

RuleOf(users, zone, soa, sub, share) ==
  [pattern |-> [u \in Users |-> zone], soa |-> soa, users |-> users,
   sub |-> sub, share |-> share]

\* One base zone that ann and bob may share, with subzones under ann's rule only;
\* cay can only be shared in.
SharedBase ==
  <<RuleOf({"ann"}, "a.p", "p", TRUE, TRUE),
    RuleOf({"bob"}, "a.p", "p", FALSE, TRUE)>>

\* Also a zone two levels below its SOA, so that its creation ensures two zones.
DeepBase == SharedBase \o <<RuleOf({"cay"}, "x.a.p", "p", FALSE, FALSE)>>

\* The SOA zone, too, is a zone that cay may have, with subzones but not shared.  The
\* filter "*" gives everybody the base zone, API tokens included; for ann and bob their
\* own rules come first.
OwnedTop ==
  DeepBase \o <<RuleOf({"cay"}, "p", "p", TRUE, FALSE),
                RuleOf(Users, "a.p", "p", FALSE, TRUE)>>

\* ann's own base zone, not shared; bob holds a shared zone below it.
MixedRules ==
  <<RuleOf({"ann"}, "a.p", "a.p", TRUE, FALSE),
    RuleOf({"bob"}, "x.a.p", "a.p", FALSE, TRUE)>>

\* Everything hangs off one base zone, which ann and bob may share; cay may have a zone
\* two levels below it.
SharedTop ==
  <<RuleOf({"ann"}, "p", "p", TRUE, TRUE),
    RuleOf({"bob"}, "p", "p", FALSE, TRUE),
    RuleOf({"cay"}, "x.a.p", "p", FALSE, TRUE)>>

\* Initial tables.
EmptyTable    == {[z \in Zones |-> <<>>]}
BaseTable     == {[z \in Zones |-> IF z = "a.p" THEN <<"ann">> ELSE <<>>]}

MidTable      == {[z \in Zones |-> IF z = "x.a.p" THEN <<>> ELSE <<"ann">>]}

OwnerLists    == {<<"ann">>, <<"bob">>, <<"ann", "bob">>, <<"bob", "ann">>}

\* Every table two users can leave behind under MixedRules.
MixedTables ==
  {[z \in Zones |-> IF z = "a.p" THEN s ELSE t] :
     s \in {<<>>, <<"ann">>}, t \in OwnerLists \cup {<<>>}}

\* The fullest of those.
FullTable == {[z \in Zones |-> IF z = "a.p" THEN <<"ann">> ELSE <<"bob", "ann">>]}

\* Every table two users can leave behind below a shared base zone.
SharedTables ==
  {[z \in Zones |-> IF z = "a.p" \/ (z = "x.a.p" /\ delegated) THEN s ELSE <<>>] :
     s \in OwnerLists, delegated \in BOOLEAN}

===============================================================================
