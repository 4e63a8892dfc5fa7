------------------------------ MODULE MCSignIn ------------------------------
(***************************************************************************)
(* How a user gets in: the authorization request and its decision, the     *)
(* accounts made by registration or federation, second factors, passkeys,  *)
(* and the avatar that account pages read.  Every behaviour follows one    *)
(* component in one of its instances; the instances share variable names   *)
(* and no state.                                                           *)
(***************************************************************************)
EXTENDS Naturals, FiniteSets, TLC

CONSTANTS None, Gone, h1, h2

VARIABLE slice   \* the component a behaviour follows

VARIABLES
    now, codes, job, delivered, events, sessions, accepted, users   \* of several components

VARIABLES   \* of AuthorizationFlow
    par, consent, nonces, jar, session, active, grant, fence, log, issued,
    admitted

VARIABLES   \* of Sessions
    user, totp, devices, seeds

VARIABLES   \* of Onboarding
    links, peerSend, emailSend, emailCode, owners, states, replay, spent,
    tries, logins

VARIABLES   \* of Passkeys
    creds, authenticators, ceremonies

VARIABLES   \* of Avatars
    account, staging, final, uploads, begun, count, reads

authorizationFlowVars == <<par, consent, nonces, jar, session, active, grant, fence, log, issued,
     admitted>>
sessionsVars == <<user, totp, devices, seeds>>
onboardingVars == <<links, peerSend, emailSend, emailCode, owners, states, replay, spent,
     tries, logins>>
passkeysVars == <<creds, authenticators, ceremonies>>
avatarsVars == <<account, staging, final, uploads, begun, count, reads>>

common == <<now, codes, job, delivered, events, sessions, accepted, users>>

vars == <<slice, common, authorizationFlowVars, sessionsVars, onboardingVars,
          passkeysVars, avatarsVars>>

Flawed(prompt, scopes, object, flaw) ==
    [prompt |-> prompt, maxAge |-> None, scopes |-> scopes, details |-> "none",
     object |-> object, flaw |-> flaw]

Request(prompt, scopes, object) == Flawed(prompt, scopes, object, "none")

PushedRequests ==
    {Request("consent", {"openid"}, None), Request("none", {"openid"}, None),
     Flawed("consent", {"openid"}, None, "par")}

ObjectRequests ==
    {Request("login", {"profile"}, "o1"), Flawed("login", {"profile"}, "o1", "signature"),
     Flawed("consent", {"profile"}, "o1", "object")}

Assertion == [subject |-> "s", email |-> "e", iat |-> 1, exp |-> 3]

Answers == {[email |-> "e", verified |-> TRUE], [email |-> "e", verified |-> FALSE]}

\* Two handlers push and redeem a request of a user who has consented before.
Pushed == INSTANCE AuthorizationFlow WITH
    Handlers <- {h1, h2}, Users <- {"u1"}, Uris <- {"par1"},
    Ids <- {"c1", "c2"}, Params <- PushedRequests, Objects <- {},
    ObjectExpiry <- 0, ParTtl <- 1, ConsentTtl <- 1, CodeTtl <- 1,
    NonceTtl <- 1, Prior <- {"openid"}, RequirePushed <- TRUE, MaxTime <- 2,
    MaxNonces <- 0, MaxEvents <- 1

\* A signed request object and a re-authentication nonce are presented by two
\* handlers.
WithObject == INSTANCE AuthorizationFlow WITH
    Handlers <- {h1, h2}, Users <- {"u1"}, Uris <- {"par1"},
    Ids <- {"c1", "c2"}, Params <- ObjectRequests, Objects <- {"o1"},
    ObjectExpiry <- 3, ParTtl <- 2, ConsentTtl <- 2, CodeTtl <- 1,
    NonceTtl <- 2, Prior <- {"openid"}, RequirePushed <- FALSE, MaxTime <- 3,
    MaxNonces <- 2, MaxEvents <- 1

\* A login challenge races the removal and the renewal of the second factor.
Enrolment == INSTANCE Sessions WITH
    Handlers <- {h1, h2}, Ops <- {"challenge", "disable", "confirm"},
    Offsets <- {0}, Enrolled <- {TRUE}, CodeCount <- 1, DeviceTtl <- 1,
    MaxSid <- 3, MaxSeed <- 2, MaxTime <- 2, MaxEvents <- 0

\* A step-up races the renewal of the recovery codes.
StepUp == INSTANCE Sessions WITH
    Handlers <- {h1, h2}, Ops <- {"step_up", "regenerate"}, Offsets <- {0},
    Enrolled <- {TRUE}, CodeCount <- 1, DeviceTtl <- 1, MaxSid <- 3,
    MaxSeed <- 2, MaxTime <- 1, MaxEvents <- 1

\* Two requests send, retry and redeem codes for one address.
Register == INSTANCE Onboarding WITH
    Handlers <- {h1, h2}, Emails <- {"e"}, Peers <- {"p", "q"},
    Browsers <- {}, Providers <- {}, Social <- {}, Subjects <- {"s"},
    Assertions <- {}, Answers <- {}, MaxAttempts <- 2, Cooldown <- 1,
    CodeTtl <- 2, StateTtl <- 1, SamlMaxTtl <- 2, SamlSkew <- 1,
    MaxOwners <- 2, MaxStates <- 1, MaxTime <- 2, MaxEvents <- 1

\* Registration races a first login through OpenID Connect or a social provider.
SocialLogin == INSTANCE Onboarding WITH
    Handlers <- {h1, h2}, Emails <- {"e"}, Peers <- {"p", "q"},
    Browsers <- {"b"}, Providers <- {"oidc", "social"}, Social <- {"social"},
    Subjects <- {"s"}, Assertions <- {}, Answers <- Answers,
    MaxAttempts <- 2, Cooldown <- 1, CodeTtl <- 2, StateTtl <- 1,
    SamlMaxTtl <- 2, SamlSkew <- 1, MaxOwners <- 1, MaxStates <- 2,
    MaxTime <- 1, MaxEvents <- 1

\* One SAML assertion is answered to two logins.
Saml == INSTANCE Onboarding WITH
    Handlers <- {h1, h2}, Emails <- {"e"}, Peers <- {"p", "q"},
    Browsers <- {"b"}, Providers <- {"saml"}, Social <- {},
    Subjects <- {"s"}, Assertions <- {Assertion}, Answers <- {},
    MaxAttempts <- 2, Cooldown <- 1, CodeTtl <- 2, StateTtl <- 1,
    SamlMaxTtl <- 2, SamlSkew <- 1, MaxOwners <- 0, MaxStates <- 2,
    MaxTime <- 3, MaxEvents <- 1

\* Two copies of an authenticator that counts, and one that does not.
Keys == INSTANCE Passkeys WITH
    Handlers <- {h1, h2}, Users <- {"u"}, Credentials <- {"c", "z"},
    Counting <- {"c"}, Copies <- {"a", "b"}, CeremonyTtl <- 2,
    MaxCeremonies <- 3, MaxCount <- 2, MaxTime <- 1, MaxEvents <- 1

\* The browser uploads straight to the object store.
FromBrowser == INSTANCE Avatars WITH
    Workers <- {h1, h2}, Direct <- TRUE, Images <- {"i"}, Junk <- {"j"},
    UploadTtl <- 2, ClaimLease <- 1, MaxUploads <- 1, MaxClaims <- 2,
    MaxRevision <- 2, MaxTime <- 2, MaxEvents <- 1

\* The server relays the upload.
ThroughServer == INSTANCE Avatars WITH
    Workers <- {h1, h2}, Direct <- FALSE, Images <- {"i"}, Junk <- {"j"},
    UploadTtl <- 2, ClaimLease <- 1, MaxUploads <- 2, MaxClaims <- 2,
    MaxRevision <- 4, MaxTime <- 2, MaxEvents <- 1

NoAuthorizationFlow ==
    /\ par = None /\ consent = None /\ nonces = None /\ jar = None
    /\ session = None /\ active = None /\ grant = None /\ fence = None
    /\ log = None /\ issued = None /\ admitted = None

NoSessions ==
    /\ user = None /\ totp = None /\ devices = None /\ seeds = None

NoOnboarding ==
    /\ links = None /\ peerSend = None /\ emailSend = None
    /\ emailCode = None /\ owners = None /\ states = None /\ replay = None
    /\ spent = None /\ tries = None /\ logins = None

NoPasskeys ==
    /\ creds = None /\ authenticators = None /\ ceremonies = None

NoAvatars ==
    /\ account = None /\ staging = None /\ final = None /\ uploads = None
    /\ begun = None /\ count = None /\ reads = None

Init ==
    \/ /\ slice = "pushed"
       /\ Pushed!Init /\ session # None /\ log # <<>>
       /\ sessions = None /\ accepted = None /\ users = None
       /\ NoSessions /\ NoOnboarding /\ NoPasskeys /\ NoAvatars
    \/ /\ slice = "objects"
       /\ WithObject!Init /\ log = <<>>
       /\ sessions = None /\ accepted = None /\ users = None
       /\ NoSessions /\ NoOnboarding /\ NoPasskeys /\ NoAvatars
    \/ /\ slice = "enrolment"
       /\ Enrolment!Init
       /\ users = None
       /\ NoAuthorizationFlow /\ NoOnboarding /\ NoPasskeys /\ NoAvatars
    \/ /\ slice = "step_up"
       /\ StepUp!Init
       /\ users = None
       /\ NoAuthorizationFlow /\ NoOnboarding /\ NoPasskeys /\ NoAvatars
    \/ /\ slice = "register"
       /\ Register!Init
       /\ codes = None /\ sessions = None
       /\ NoAuthorizationFlow /\ NoSessions /\ NoPasskeys /\ NoAvatars
    \/ /\ slice = "social"
       /\ SocialLogin!Init
       /\ codes = None /\ sessions = None
       /\ NoAuthorizationFlow /\ NoSessions /\ NoPasskeys /\ NoAvatars
    \/ /\ slice = "saml"
       /\ Saml!Init
       /\ codes = None /\ sessions = None
       /\ NoAuthorizationFlow /\ NoSessions /\ NoPasskeys /\ NoAvatars
    \/ /\ slice = "passkeys"
       /\ Keys!Init
       /\ codes = None /\ delivered = None
       /\ NoAuthorizationFlow /\ NoSessions /\ NoOnboarding /\ NoAvatars
    \/ /\ slice = "direct"
       /\ FromBrowser!Init
       /\ codes = None /\ delivered = None /\ sessions = None
       /\ accepted = None /\ users = None
       /\ NoAuthorizationFlow /\ NoSessions /\ NoOnboarding /\ NoPasskeys
    \/ /\ slice = "relayed"
       /\ ThroughServer!Init
       /\ codes = None /\ delivered = None /\ sessions = None
       /\ accepted = None /\ users = None
       /\ NoAuthorizationFlow /\ NoSessions /\ NoOnboarding /\ NoPasskeys

Next ==
    /\ UNCHANGED slice
    /\ \/ /\ slice = "pushed"
          /\ Pushed!Next
          /\ UNCHANGED <<sessionsVars, onboardingVars, passkeysVars,
                      avatarsVars, sessions, accepted, users>>
       \/ /\ slice = "objects"
          /\ WithObject!Next
          /\ UNCHANGED <<sessionsVars, onboardingVars, passkeysVars,
                      avatarsVars, sessions, accepted, users>>
       \/ /\ slice = "enrolment"
          /\ Enrolment!Next
          /\ UNCHANGED <<authorizationFlowVars, onboardingVars, passkeysVars,
                      avatarsVars, users>>
       \/ /\ slice = "step_up"
          /\ StepUp!Next
          /\ UNCHANGED <<authorizationFlowVars, onboardingVars, passkeysVars,
                      avatarsVars, users>>
       \/ /\ slice = "register"
          /\ Register!Next
          /\ UNCHANGED <<authorizationFlowVars, sessionsVars, passkeysVars,
                      avatarsVars, codes, sessions>>
       \/ /\ slice = "social"
          /\ SocialLogin!Next
          /\ UNCHANGED <<authorizationFlowVars, sessionsVars, passkeysVars,
                      avatarsVars, codes, sessions>>
       \/ /\ slice = "saml"
          /\ Saml!Next
          /\ UNCHANGED <<authorizationFlowVars, sessionsVars, passkeysVars,
                      avatarsVars, codes, sessions>>
       \/ /\ slice = "passkeys"
          /\ Keys!Next
          /\ UNCHANGED <<authorizationFlowVars, sessionsVars, onboardingVars,
                      avatarsVars, codes, delivered>>
       \/ /\ slice = "direct"
          /\ FromBrowser!Next
          /\ UNCHANGED <<authorizationFlowVars, sessionsVars, onboardingVars,
                      passkeysVars, codes, delivered, sessions, accepted,
                      users>>
       \/ /\ slice = "relayed"
          /\ ThroughServer!Next
          /\ UNCHANGED <<authorizationFlowVars, sessionsVars, onboardingVars,
                      passkeysVars, codes, delivered, sessions, accepted,
                      users>>

Spec == Init /\ [][Next]_vars

Symmetry == Permutations({h1, h2})

-----------------------------------------------------------------------------
\* A consent decision is taken once, every code rests on a decision that
\* covered the request as it was admitted, and a request object, a DPoP
\* nonce or a pushed request is used up by one authorization only: the
\* interaction is consumed in Valkey and the decision committed in
\* PostgreSQL (authorization_service.rs, authorization decision store),
\* whatever fails in between.
DecisionsBackCodes ==
    /\ slice = "pushed" =>
         Pushed!TypeOK /\ Pushed!DecidedOnce /\ Pushed!CodesBacked /\ Pushed!ProofsUsedOnce
    /\ slice = "objects" =>
         WithObject!TypeOK /\ WithObject!DecidedOnce /\ WithObject!CodesBacked
           /\ WithObject!ProofsUsedOnce

\* A second factor is accepted only against the enrolment generation it was
\* checked with, and a session is stepped up only by a factor accepted for
\* that very session record (sessions.rs, mfa.rs): disabling, re-enrolling
\* and regenerating race the checks.
SecondFactorsBacked ==
    /\ slice = "enrolment" =>
         Enrolment!TypeOK /\ Enrolment!FactorsOfGeneration /\ Enrolment!StepUpBacked
    /\ slice = "step_up" =>
         StepUp!TypeOK /\ StepUp!FactorsOfGeneration /\ StepUp!StepUpBacked

\* An account registered by e-mail rests on the code that was delivered to
\* its address, a delivered code stays usable until it expires or is spent,
\* and a federated login ends in the account that is linked to the subject
\* (registration and federation services), though requests race for one
\* address, one code, one link and one SAML assertion.
AccountsBacked ==
    /\ slice = "register" =>
         Register!TypeOK /\ Register!CodesBackAccounts /\ Register!DeliveredCodeStands
    /\ slice = "social" =>
         SocialLogin!TypeOK /\ SocialLogin!CodesBackAccounts
           /\ SocialLogin!FederatedOwnAccount
    /\ slice = "saml" => Saml!TypeOK /\ Saml!FederatedOwnAccount

\* The signature counts the server accepts from one counting credential
\* strictly increase, so that of two copies of an authenticator that use the
\* same count only one signs in (passkey login and its compare-and-swap).
CountsAdvance == slice = "passkeys" => Keys!TypeOK /\ Keys!CountsAdvance

\* Both kinds of factor, codes and passkeys, count once.
FactorsSound == SecondFactorsBacked /\ CountsAdvance

\* The avatar an account selects is stored whole, an upload takes effect
\* only over the revision it began from, and every read the server allows
\* finds its object, while uploads, replacements, removals and the cleanup of
\* stale uploads interleave (identity/avatar.rs).
AvatarsIntact ==
    /\ slice = "direct" =>
         FromBrowser!TypeOK /\ FromBrowser!SelectedIntact /\ FromBrowser!UploadFenced
           /\ FromBrowser!ReadsServed
    /\ slice = "relayed" =>
         ThroughServer!TypeOK /\ ThroughServer!SelectedIntact /\ ThroughServer!UploadFenced
           /\ ThroughServer!ReadsServed
=============================================================================
