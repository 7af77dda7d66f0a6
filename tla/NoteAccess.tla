----------------------------- MODULE NoteAccess -----------------------------
(***************************************************************************)
(* Who may see a note: the viewer's profile, the notes shown by default,   *)
(* and the viewer's grants, with the endpoints that change them.  Each of  *)
(* them reads and commits on its own, so each is one step.                 *)
(*                                                                         *)
(* The rule is written twice in the code, once as a predicate on a note    *)
(* that was loaded and once as a clause of a search.                       *)
(* Op_Fault is Op with a plausible bug; no action uses it.                 *)
(***************************************************************************)
EXTENDS Naturals

CONSTANTS
    Notes,        \* ids of notes that exist
    MaxChanges    \* bound: how often access is changed

ASSUME AccessAssumption == MaxChanges \in Nat

VARIABLES
    profile,    \* the viewer's wcs_user_profiles row, and its is_admin
    shown,      \* the notes with is_default_visible
    granted,    \* the notes granted to the viewer
    changes

access == <<profile, shown, granted, changes>>

Profile == {"absent", "user", "admin"}

AccessInit ==
    /\ profile = "absent"
    /\ shown \in SUBSET Notes
    /\ granted = {}
    /\ changes = 0

-----------------------------------------------------------------------------
(* user_can_see_note: what is_default_visible and the profile were when    *)
(* they were read, and the grants there are.                               *)
Sees(isShown, role, isGranted) ==
    \/ isShown
    \/ role = "admin"
    \/ role # "absent" /\ isGranted

CanSee(n) == Sees(n \in shown, profile, n \in granted)

(* _build_visibility_clause: what a search may return.                     *)
Searchable(role) == IF role = "admin" THEN Notes ELSE shown \cup granted

-----------------------------------------------------------------------------
(* POST /wcs/me: the first one creates the profile.                        *)
UpsertMe ==
    /\ profile = "absent"
    /\ profile' = "user"
    /\ UNCHANGED <<shown, granted>>

(* PATCH /wcs/admin/users/{user_id}: 404 without a profile.                *)
PatchUser ==
    /\ profile # "absent"
    /\ profile' \in {"user", "admin"} \ {profile}
    /\ UNCHANGED <<shown, granted>>

CreateGrant_NoForeignKey(n) ==
    /\ n \notin granted
    /\ granted' = granted \cup {n}
    /\ UNCHANGED <<profile, shown>>

(* POST /wcs/admin/grants: a conflict when the grant exists or when the    *)
(* foreign key finds no profile.                                           *)
CreateGrant(n) ==
    /\ n \notin granted
    /\ profile # "absent"
    /\ granted' = granted \cup {n}
    /\ UNCHANGED <<profile, shown>>

(* DELETE /wcs/admin/grants/{grant_id}.                                    *)
DeleteGrant(n) ==
    /\ n \in granted
    /\ granted' = granted \ {n}
    /\ UNCHANGED <<profile, shown>>

(* PATCH /wcs/admin/notes/{note_id} and .../visibility.                    *)
PatchVisibility(n) ==
    /\ shown' = IF n \in shown THEN shown \ {n} ELSE shown \cup {n}
    /\ UNCHANGED <<profile, granted>>

ChangeAccess ==
    /\ changes < MaxChanges
    /\ changes' = changes + 1
    /\ \/ UpsertMe
       \/ PatchUser
       \/ \E n \in Notes : CreateGrant(n) \/ DeleteGrant(n) \/ PatchVisibility(n)

AccessTypeOK ==
    /\ profile \in Profile
    /\ shown \in SUBSET Notes
    /\ granted \in SUBSET Notes
    /\ changes \in 0..MaxChanges
=============================================================================
