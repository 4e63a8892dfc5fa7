------------------------------ MODULE MCTenants -----------------------------
(***************************************************************************)
(* What a tenant administers: its resources under the control plane, its   *)
(* clients and their approval, its accounts under administrators and       *)
(* provisioning, and the sessions its users end.  Every behaviour follows  *)
(* one component in one of its instances; the instances share variable     *)
(* names and no state.                                                     *)
(***************************************************************************)
EXTENDS Naturals, FiniteSets, TLC

CONSTANTS None, h1, h2

VARIABLE slice   \* the component a behaviour follows

VARIABLES
    job, events, clients, admin, now, active, outbox   \* of several components

VARIABLES   \* of TenantResources
    bindings, rows, links, state, ledger, opLock, locks, runs

VARIABLES   \* of ClientRegistry
    live, minted, decided, spent

VARIABLES   \* of ClientApproval
    requests, store, staged, claimed, attempts

VARIABLES   \* of Accounts
    users, held, lock, tokens, modules, receipts, seen, last

VARIABLES   \* of Logout
    session, work, owed, queued, heard, begun

tenantResourcesVars == <<bindings, rows, links, state, ledger, opLock, locks, runs>>
clientRegistryVars == <<live, minted, decided, spent>>
clientApprovalVars == <<requests, store, staged, claimed, attempts>>
accountsVars == <<users, held, lock, tokens, modules, receipts, seen, last>>
logoutVars == <<session, work, owed, queued, heard, begun>>

common == <<job, events, clients, admin, now, active, outbox>>

vars == <<slice, common, tenantResourcesVars, clientRegistryVars,
          clientApprovalVars, accountsVars, logoutVars>>

\* Tenant resources: items and operations of the control plane.
Item(key, digest, parent, slot) ==
    [key |-> key, digest |-> digest, parent |-> parent, slot |-> slot]

Operation(id, action, items) ==
    [id |-> id, hash |-> "h", action |-> action, items |-> items, flaw |-> "none"]

UserItem(digest) == Item("u", digest, None, None)
DatasetItem == Item("d", "x", "u", "c")
PolicyItem == Item("p", "x", None, None)
ClientItem == Item("c", "x", "p", None)
TrustItem == Item("m", "x", "c", "f")

OwnedOperations ==
    {Operation("1", "apply", {UserItem("x")}), Operation("2", "apply", {DatasetItem}),
     Operation("3", "revoke", {UserItem("x")}),
     Operation("4", "revoke", {UserItem("x"), DatasetItem}),
     Operation("5", "enumerate", {}), Operation("6", "apply", {UserItem("y")})}

LinkedOperations ==
    {Operation("1", "apply", {PolicyItem, ClientItem}), Operation("2", "apply", {TrustItem}),
     Operation("3", "revoke", {ClientItem}), Operation("4", "revoke", {PolicyItem}),
     Operation("5", "revoke", {ClientItem, TrustItem})}

\* Client registration: what the policies admit, and the requests.
Admits == [base |-> {"weak", "firm"}, strict |-> {"firm"}]

Creation == [scopes |-> {"a", "b"}, meta |-> "firm", policy |-> "base", audience |-> "d",
             flaw |-> "none"]

Patch(field, value) == [field |-> field, value |-> value, flaw |-> "none"]

Payload(scopes, meta, secret) ==
    [scopes |-> scopes, meta |-> meta, secret |-> secret, flaw |-> "none"]

AdminPatches ==
    {Patch("scopes", {"a"}), Patch("policy", "strict"), Patch("meta", "firm"),
     Patch("active", FALSE), Patch("active", TRUE), Patch("audience", "e")}

Updates == {Payload({"a", "b"}, "weak", None), Payload({"a"}, "firm", 0)}

\* Accounts.
Rank(level, enabled) == [level |-> level, active |-> enabled]

User(name, email, enabled, form) ==
    [name |-> name, email |-> email, active |-> enabled, form |-> form]

Provisioner == [t \in {"k"} |-> {"scim:*"}]

\* Logout requests: confirmed by the user, or with an ID token hint.
Confirmed(redirect) ==
    [client |-> IF redirect = "none" THEN None ELSE "a", hint |-> None,
     redirect |-> redirect, confirmed |-> TRUE]

Hinted ==
    [client |-> None, redirect |-> "registered", confirmed |-> FALSE,
     hint |-> [aud |-> {"a"}, valid |-> TRUE, expired |-> TRUE, own |-> TRUE]]

\* A user, and a dataset that belongs to the user.
Owned == INSTANCE TenantResources WITH
    Workers <- {h1, h2}, Keys <- <<"u", "d">>,
    Kind <- [u |-> "user", d |-> "dataset"], Operations <- OwnedOperations,
    MaxRuns <- 4, MaxEvents <- 1

\* A policy, a client under it, and the trust anchor of the client.
Linked == INSTANCE TenantResources WITH
    Workers <- {h1, h2}, Keys <- <<"c", "m", "p">>,
    Kind <- [c |-> "client", m |-> "mtls", p |-> "policy"],
    Operations <- LinkedOperations, MaxRuns <- 5, MaxEvents <- 1

Registry == INSTANCE ClientRegistry WITH
    Handlers <- {h1, h2}, Clients <- {"c"}, Creations <- {Creation},
    Patches <- AdminPatches, Payloads <- Updates, Allows <- Admits,
    Default <- [policy |-> "base", audience |-> "d"], MaxTokens <- 3,
    MaxEvents <- 1

Approval == INSTANCE ClientApproval WITH
    Workers <- {h1, h2}, Requests <- {"r"}, Owner <- [r \in {"r"} |-> "u"],
    Registrations <- {[reg |-> x, flaw |-> "none"] : x \in {"x", "y"}},
    Taken <- {1}, DeliveryTtl <- 2, MaxAttempts <- 3, MaxTime <- 2,
    MaxEvents <- 1

\* Administrators of a tenant and of the control tenant change each other.
Ranks == INSTANCE Accounts WITH
    Workers <- {h1, h2}, Users <- 1..3,
    TenantOf <- [u \in 1..3 |-> IF u = 1 THEN "t" ELSE "c"], Control <- "c",
    Managed <- {}, Existing <- [u \in 1..3 |-> IF u = 1 THEN 0 ELSE u],
    Names <- 1..4, Tokens <- {}, Provisioned <- "t",
    TokenScopes <- [t \in {} |-> {}], Ops <- {"admin", "tenant_admin"},
    EventModule <- {"on"},
    Updates <- {Rank(0, None), Rank(1, None), Rank(None, FALSE)},
    Patches <- {}, Retention <- 1, CursorTtl <- 1, PageSize <- 1,
    MaxLevel <- 3, MaxEpoch <- 1, MaxTime <- 0, MaxOutbox <- 0,
    MaxEvents <- 0

\* Two provisioning requests change one account while it obtains grants.
Provision == INSTANCE Accounts WITH
    Workers <- {h1, h2}, Users <- {1}, TenantOf <- [u \in {1} |-> "t"],
    Control <- "c", Managed <- {}, Existing <- [u \in {1} |-> 0],
    Names <- {1, 2}, Tokens <- {"k"}, Provisioned <- "t",
    TokenScopes <- Provisioner, Ops <- {"replace", "patch", "issue"},
    EventModule <- {"on", "off"}, Updates <- {},
    Patches <- {User(None, 2, None, "valid"), User(1, 1, TRUE, "valid"),
                User(1, 1, FALSE, "valid"), User(None, None, FALSE, "valid")},
    Retention <- 1, CursorTtl <- 1, PageSize <- 1, MaxLevel <- 2,
    MaxEpoch <- 1, MaxTime <- 0, MaxOutbox <- 2, MaxEvents <- 0

\* A listing by cursor while accounts are created and deleted.
Listing == INSTANCE Accounts WITH
    Workers <- {h1, h2}, Users <- 1..3, TenantOf <- [u \in 1..3 |-> "t"],
    Control <- "c", Managed <- {1},
    Existing <- [u \in 1..3 |-> CASE u = 1 -> 1 [] u = 2 -> 0 [] OTHER -> None],
    Names <- 1..3, Tokens <- {"k"}, Provisioned <- "t",
    TokenScopes <- Provisioner,
    Ops <- {"admin_create", "create", "replace", "delete", "list"},
    EventModule <- {"on"}, Updates <- {Rank(None, FALSE), Rank(None, TRUE)},
    Patches <- {User(3, 2, TRUE, "valid"), User(3, 3, TRUE, "torn"), User(3, 3, TRUE, "valid"),
                User(None, None, FALSE, "valid"), User(None, None, None, "valid")},
    Retention <- 1, CursorTtl <- 1, PageSize <- 1, MaxLevel <- 2,
    MaxEpoch <- 1, MaxTime <- 1, MaxOutbox <- 1, MaxEvents <- 0

\* A receiver polls, acknowledges and loses answers.
Polling == INSTANCE Accounts WITH
    Workers <- {h1, h2}, Users <- {1}, TenantOf <- [u \in {1} |-> "t"],
    Control <- "c", Managed <- {}, Existing <- [u \in {1} |-> 0],
    Names <- {1, 2}, Tokens <- {"k"}, Provisioned <- "t",
    TokenScopes <- Provisioner, Ops <- {"patch", "poll"},
    EventModule <- {"on"}, Updates <- {},
    Patches <- {User(None, None, None, "valid")}, Retention <- 1,
    CursorTtl <- 1, PageSize <- 1, MaxLevel <- 2, MaxEpoch <- 1,
    MaxTime <- 1, MaxOutbox <- 2, MaxEvents <- 1

\* Two logouts of one session, with failures and a delivery worker.
LogOut == INSTANCE Logout WITH
    Handlers <- {h1, h2}, Workers <- {"w"}, Clients <- {"a"}, Silent <- {},
    Requests <- {Confirmed("none")}, Ttl <- 2, Delays <- <<1>>,
    LockTimeout <- 5, Batch <- 1, MaxLogouts <- 2, MaxTime <- 3,
    MaxEvents <- 1

\* Two clients to notify, in batches of one.
FanOut == INSTANCE Logout WITH
    Handlers <- {h1}, Workers <- {"w"}, Clients <- {"a", "b"}, Silent <- {},
    Requests <- {Confirmed("none"), Confirmed("unregistered"), Hinted},
    Ttl <- 2, Delays <- <<1>>, LockTimeout <- 5, Batch <- 1, MaxLogouts <- 1,
    MaxTime <- 2, MaxEvents <- 0

NoTenantResources ==
    /\ bindings = None /\ rows = None /\ links = None /\ state = None
    /\ ledger = None /\ opLock = None /\ locks = None /\ runs = None

NoClientRegistry ==
    /\ live = None /\ minted = None /\ decided = None /\ spent = None

NoClientApproval ==
    /\ requests = None /\ store = None /\ staged = None /\ claimed = None
    /\ attempts = None

NoAccounts ==
    /\ users = None /\ held = None /\ lock = None /\ tokens = None
    /\ modules = None /\ receipts = None /\ seen = None /\ last = None

NoLogout ==
    /\ session = None /\ work = None /\ owed = None /\ queued = None
    /\ heard = None /\ begun = None

Init ==
    \/ /\ slice = "owned"
       /\ Owned!Init
       /\ clients = None /\ admin = None /\ now = None /\ active = None
       /\ outbox = None
       /\ NoClientRegistry /\ NoClientApproval /\ NoAccounts /\ NoLogout
    \/ /\ slice = "linked"
       /\ Linked!Init
       /\ clients = None /\ admin = None /\ now = None /\ active = None
       /\ outbox = None
       /\ NoClientRegistry /\ NoClientApproval /\ NoAccounts /\ NoLogout
    \/ /\ slice = "registry"
       /\ Registry!Init
       /\ now = None /\ active = None /\ outbox = None
       /\ NoTenantResources /\ NoClientApproval /\ NoAccounts /\ NoLogout
    \/ /\ slice = "approval"
       /\ Approval!Init
       /\ outbox = None
       /\ NoTenantResources /\ NoClientRegistry /\ NoAccounts /\ NoLogout
    \/ /\ slice = "ranks"
       /\ Ranks!Init
       /\ clients = None /\ admin = None /\ active = None
       /\ NoTenantResources /\ NoClientRegistry /\ NoClientApproval
       /\ NoLogout
    \/ /\ slice = "provision"
       /\ Provision!Init
       /\ clients = None /\ admin = None /\ active = None
       /\ NoTenantResources /\ NoClientRegistry /\ NoClientApproval
       /\ NoLogout
    \/ /\ slice = "listing"
       /\ Listing!Init
       /\ clients = None /\ admin = None /\ active = None
       /\ NoTenantResources /\ NoClientRegistry /\ NoClientApproval
       /\ NoLogout
    \/ /\ slice = "polling"
       /\ Polling!Init
       /\ clients = None /\ admin = None /\ active = None
       /\ NoTenantResources /\ NoClientRegistry /\ NoClientApproval
       /\ NoLogout
    \/ /\ slice = "logout"
       /\ LogOut!Init
       /\ clients = None /\ admin = None
       /\ NoTenantResources /\ NoClientRegistry /\ NoClientApproval
       /\ NoAccounts
    \/ /\ slice = "fan_out"
       /\ FanOut!Init
       /\ clients = None /\ admin = None
       /\ NoTenantResources /\ NoClientRegistry /\ NoClientApproval
       /\ NoAccounts

Next ==
    /\ UNCHANGED slice
    /\ \/ /\ slice = "owned"
          /\ Owned!Next
          /\ UNCHANGED <<clientRegistryVars, clientApprovalVars, accountsVars,
                      logoutVars, clients, admin, now, active, outbox>>
       \/ /\ slice = "linked"
          /\ Linked!Next
          /\ UNCHANGED <<clientRegistryVars, clientApprovalVars, accountsVars,
                      logoutVars, clients, admin, now, active, outbox>>
       \/ /\ slice = "registry"
          /\ Registry!Next
          /\ UNCHANGED <<tenantResourcesVars, clientApprovalVars,
                      accountsVars, logoutVars, now, active, outbox>>
       \/ /\ slice = "approval"
          /\ Approval!Next
          /\ UNCHANGED <<tenantResourcesVars, clientRegistryVars,
                      accountsVars, logoutVars, outbox>>
       \/ /\ slice = "ranks"
          /\ Ranks!Next
          /\ UNCHANGED <<tenantResourcesVars, clientRegistryVars,
                      clientApprovalVars, logoutVars, clients, admin,
                      active>>
       \/ /\ slice = "provision"
          /\ Provision!Next
          /\ UNCHANGED <<tenantResourcesVars, clientRegistryVars,
                      clientApprovalVars, logoutVars, clients, admin,
                      active>>
       \/ /\ slice = "listing"
          /\ Listing!Next
          /\ UNCHANGED <<tenantResourcesVars, clientRegistryVars,
                      clientApprovalVars, logoutVars, clients, admin,
                      active>>
       \/ /\ slice = "polling"
          /\ Polling!Next
          /\ UNCHANGED <<tenantResourcesVars, clientRegistryVars,
                      clientApprovalVars, logoutVars, clients, admin,
                      active>>
       \/ /\ slice = "logout"
          /\ LogOut!Next
          /\ UNCHANGED <<tenantResourcesVars, clientRegistryVars,
                      clientApprovalVars, accountsVars, clients, admin>>
       \/ /\ slice = "fan_out"
          /\ FanOut!Next
          /\ UNCHANGED <<tenantResourcesVars, clientRegistryVars,
                      clientApprovalVars, accountsVars, clients, admin>>

Spec == Init /\ [][Next]_vars

Symmetry == Permutations({h1, h2})

-----------------------------------------------------------------------------
\* The manifest of a tenant's resources names exactly what its bindings and
\* rows hold, and a resource that is owned is whole: its row, its binding,
\* the rows that hang on it and the links to them stand or fall together,
\* though two workers apply and revoke overlapping sets from maps they read
\* before they held the locks (tenant_resource_executor.rs).
ResourcesWhole ==
    /\ slice = "owned" => Owned!TypeOK /\ Owned!ManifestTrue /\ Owned!OwnedIsWhole
    /\ slice = "linked" => Linked!TypeOK /\ Linked!ManifestTrue /\ Linked!OwnedIsWhole

\* An administrator's decision about a client stands until an administrator
\* changes it, and every stored registration satisfies the policy, the scopes
\* and the token it was written under, though administrators, dynamic
\* registration and deletion work from records read earlier
\* (clients/mutation.rs).
RegistrationsStand ==
    slice = "registry" =>
        Registry!TypeOK /\ Registry!DecisionsStand /\ Registry!RegistrationSound

\* The secret of an approved client is handed out once, and an approval whose
\* delivery was interrupted can still be completed or repeated: the staged
\* secret, the request row and the client agree (admin/access_requests.rs).
SecretsDelivered ==
    slice = "approval" => Approval!TypeOK /\ Approval!ClaimedOnce /\ Approval!DeliveryRecoverable

\* Clients as registered and clients as approved: what was decided stands, and
\* what was promised can be delivered.
ClientsStand == RegistrationsStand /\ SecretsDelivered

\* Nobody changes an account of their own rank or above, or grants such a
\* rank, by the rank they hold when the change is written; concurrent
\* promotions and demotions included (identity/admin.rs, users.rs).
RankedStep ==
    [][slice = "ranks" => Ranks!RankedChange]_vars

\* Administrators and provisioning take account rows in one order, so that
\* they never wait for each other in a circle; what a deactivation revoked
\* stays revoked; every security event reports a transition that took place;
\* a receipt exists only for events that were answered; and a listing by
\* cursor returns every account that was there throughout (users.rs, scim.rs,
\* scim_events.rs, scim/query.rs).
ProvisioningTrue ==
    /\ slice = "ranks" => Ranks!TypeOK /\ Ranks!NoLockCycle /\ Ranks!NothingRevived
    /\ slice = "provision" =>
         Provision!TypeOK /\ Provision!NothingRevived /\ Provision!TransitionsTrue
    /\ slice = "listing" => Listing!TypeOK /\ Listing!TransitionsTrue /\ Listing!ListComplete
    /\ slice = "polling" =>
         Polling!TypeOK /\ Polling!TransitionsTrue /\ Polling!ReceiptsFollowDelivery

\* A session ended by a logout left a durable notification for every client
\* that logout had to tell, and no client receives two logout tokens of one
\* session that are valid at the same time, though logouts fail half-way, are
\* retried and run twice (domain/oidc_logout.rs, repositories/audit.rs).
LogoutTold ==
    /\ slice = "logout" => LogOut!TypeOK /\ LogOut!ToldBeforeEnd /\ LogOut!OneValidToken
    /\ slice = "fan_out" => FanOut!TypeOK /\ FanOut!ToldBeforeEnd /\ FanOut!OneValidToken
=============================================================================
