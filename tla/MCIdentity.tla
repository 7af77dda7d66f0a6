----------------------------- MODULE MCIdentity -----------------------------
(* Instances of Identity for TLC: the workloads of its run.                *)
EXTENDS Identity, TLC

CONSTANTS a1, a2, a3, a4, ann, bo, m1, m2, r1, r2, r3, people, boots, unready

Enter(p) == [kind |-> "sign_in", who |-> p]
Flag(c, p, v) == [kind |-> "patch", caller |-> c, who |-> p, admin |-> v]
Deploy(d) == [kind |-> "boot", declaration |-> d]
Machine(m, R) == [name |-> m, roles |-> R]

Happens(roleNames, peopleKnown, machinesKnown, requests, width) ==
    [roles |-> roleNames, people_issuer |-> peopleKnown, machine_issuer |-> machinesKnown,
     requests |-> requests, width |-> width]

(* Sign-ins of one new person, one after the other and at once, while an   *)
(* admin sets and resets the flag, and callers without the scope try.      *)
PeopleWorkload ==
    (a1 :> {Enter(bo)})
 @@ (a2 :> {Enter(bo)})
 @@ (a3 :> {Enter(ann), Flag(ann, bo, FALSE)})
 @@ (a4 :> {Flag(ann, bo, TRUE), Flag(bo, ann, FALSE)})

(* Deploys of declarations that share machines: in another order, with     *)
(* other roles, without a machine, with a role nobody knows.               *)
BootWorkload ==
    (a1 :> {Deploy(<<Machine(m1, {r1, r2}), Machine(m2, {r1})>>)})
 @@ (a2 :> {Deploy(<<Machine(m2, {r2}), Machine(m1, {r1})>>), Deploy(<<Machine(m1, {r2})>>)})
 @@ (a3 :> {Deploy(<<Machine(m1, {r1, r2}), Machine(m2, {r3, r2})>>),
            Deploy(<<>>)})
 @@ (a4 :> {})

(* A store whose issuers the migrations have not added.                    *)
UnreadyWorkload ==
    (a1 :> {Enter(bo)})
 @@ (a2 :> {Deploy(<<Machine(m1, {r1})>>)})
 @@ (a3 :> {Deploy(<<>>), Enter(bo)})
 @@ (a4 :> {})

IdentityPlans ==
    (people :> Happens({AdminRole, ReaderRole, r1, r2}, TRUE, TRUE, PeopleWorkload, 3))
 @@ (boots :> Happens({AdminRole, ReaderRole, r1, r2}, TRUE, TRUE, BootWorkload, 2))
 @@ (unready :> Happens({AdminRole, ReaderRole}, FALSE, FALSE, UnreadyWorkload, 2))

MCHandGrants == {[who |-> m1, role |-> r2], [who |-> m2, role |-> r1]}
=============================================================================
