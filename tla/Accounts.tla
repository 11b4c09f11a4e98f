------------------------------ MODULE Accounts ------------------------------
(***************************************************************************)
(* The first account of the dashboard.  A dashboard that starts without    *)
(* users writes a one-time token, or takes up the one that is pending;     *)
(* whoever presents it on /setup creates the first user.  A request counts *)
(* the users, compares the token, removes it and creates the user, in four *)
(* steps, and several requests run at once.                                *)
(***************************************************************************)
EXTENDS Naturals, FiniteSets

CONSTANTS Claimants,        \* requests to /setup that may run at the same time
          Names,            \* user names
          MaxTokens,        \* bound: tokens written
          MaxSetups,        \* bound: requests
          MaxAccountFaults  \* bound: crashes, and starts that fail to write the token

ASSUME AccountsAssumption == {MaxTokens, MaxSetups, MaxAccountFaults} \subseteq Nat

VARIABLES token,    \* the file: which token it holds, and whether the file parses
          issued,   \* how many tokens have been generated
          users,    \* rows of the users table
          up,       \* the dashboard serves
          setup,    \* the requests to /setup
          together, \* two requests stood between the comparison and the removal
          spent,    \* this dashboard's token was used up by a user it could not create
          setupCount, accountFaults

accountVars == <<token, issued, users, up, setup, together, spent, setupCount, accountFaults>>

NoToken == [whole |-> FALSE, number |-> 0]
WholeToken(number) == [whole |-> TRUE, number |-> number]
TornToken(number) == [whole |-> FALSE, number |-> number]

NoSetup == [at |-> "idle", presents |-> 0, name |-> "none"]

AccountsInit ==
    /\ token = NoToken
    /\ issued = 0
    /\ users = {}
    /\ up = FALSE
    /\ setup = [s \in Claimants |-> NoSetup]
    /\ together = FALSE
    /\ spent = FALSE
    /\ setupCount = 0
    /\ accountFaults = 0

-----------------------------------------------------------------------------

\* Variant: any file is a pending token.
ServerStartsWithAny ==
    /\ ~up
    /\ users = {} /\ token = NoToken => issued < MaxTokens
    /\ up' = TRUE
    /\ spent' = FALSE
    /\ IF users = {} /\ token = NoToken
       THEN token' = WholeToken(issued + 1) /\ issued' = issued + 1
       ELSE UNCHANGED <<token, issued>>
    /\ UNCHANGED <<users, setup, together, setupCount, accountFaults>>

\* The dashboard starts.  Without users EnsureSetupToken keeps a token that parses and
\* replaces any other.
ServerStarts ==
    /\ ~up
    /\ users = {} /\ ~token.whole => issued < MaxTokens
    /\ up' = TRUE
    /\ spent' = FALSE
    /\ IF users = {} /\ ~token.whole
       THEN token' = WholeToken(issued + 1) /\ issued' = issued + 1
       ELSE UNCHANGED <<token, issued>>
    /\ UNCHANGED <<users, setup, together, setupCount, accountFaults>>

\* The write of the token fails half-way, and so does the start.
StartFails ==
    /\ ~up
    /\ users = {} /\ ~token.whole
    /\ issued < MaxTokens
    /\ accountFaults < MaxAccountFaults
    /\ token' = TornToken(issued + 1)
    /\ issued' = issued + 1
    /\ accountFaults' = accountFaults + 1
    /\ UNCHANGED <<users, up, setup, together, spent, setupCount>>

\* The dashboard stops, and its requests with it.
ServerStops ==
    /\ up
    /\ accountFaults < MaxAccountFaults
    /\ up' = FALSE
    /\ setup' = [s \in Claimants |-> NoSetup]
    /\ accountFaults' = accountFaults + 1
    /\ UNCHANGED <<token, issued, users, together, spent, setupCount>>

\* A request arrives and counts the users; once there is one it clears a left-over token.
CountUsers(s, presents, name) ==
    /\ up
    /\ setup[s].at = "idle"
    /\ setupCount < MaxSetups
    /\ setupCount' = setupCount + 1
    /\ IF users # {}
       THEN token' = NoToken /\ UNCHANGED setup
       ELSE /\ setup' = [setup EXCEPT ![s] = [at |-> "compare", presents |-> presents, name |-> name]]
            /\ UNCHANGED token
    /\ UNCHANGED <<issued, users, up, together, spent, accountFaults>>

CompareToken(s) ==
    /\ setup[s].at = "compare"
    /\ LET matches == token = WholeToken(setup[s].presents)
       IN /\ setup' = [setup EXCEPT ![s] = IF matches THEN [@ EXCEPT !.at = "remove"] ELSE NoSetup]
          /\ together' = (together \/ (matches /\ \E o \in Claimants \ {s} : setup[o].at = "remove"))
    /\ UNCHANGED <<token, issued, users, up, spent, setupCount, accountFaults>>

\* Variant: the token stays until the user exists.
KeepToken(s) ==
    /\ setup[s].at = "remove"
    /\ setup' = [setup EXCEPT ![s].at = "create"]
    /\ UNCHANGED <<token, issued, users, up, together, spent, setupCount, accountFaults>>

\* A token that is already gone counts as removed.
RemoveToken(s) ==
    /\ setup[s].at = "remove"
    /\ token' = NoToken
    /\ setup' = [setup EXCEPT ![s].at = "create"]
    /\ UNCHANGED <<issued, users, up, together, spent, setupCount, accountFaults>>

\* CreateUser refuses a name or password that is too short ("none") and a name in use.
CreateUser(s) ==
    /\ setup[s].at = "create"
    /\ LET name == setup[s].name
       IN IF name = "none" \/ name \in users
          THEN spent' = TRUE /\ UNCHANGED users
          ELSE users' = users \union {name} /\ UNCHANGED spent
    /\ setup' = [setup EXCEPT ![s] = NoSetup]
    /\ UNCHANGED <<token, issued, up, together, setupCount, accountFaults>>

AccountsNext ==
    \/ ServerStarts
    \/ StartFails
    \/ ServerStops
    \/ \E s \in Claimants :
          \/ \E presents \in 1 .. issued, name \in Names \union {"none"} : CountUsers(s, presents, name)
          \/ CompareToken(s)
          \/ RemoveToken(s)
          \/ CreateUser(s)

AccountsSpec == AccountsInit /\ [][AccountsNext]_accountVars

-----------------------------------------------------------------------------
(* Properties.                                                             *)

AccountsTypeOK ==
    /\ issued \in 0 .. MaxTokens
    /\ token \in [whole : BOOLEAN, number : 0 .. issued]
    /\ users \subseteq Names
    /\ up \in BOOLEAN
    /\ setup \in [Claimants -> [at : {"idle", "compare", "remove", "create"},
                                presents : 0 .. issued, name : Names \union {"none"}]]
    /\ together \in BOOLEAN
    /\ spent \in BOOLEAN
    /\ setupCount \in 0 .. MaxSetups
    /\ accountFaults \in 0 .. MaxAccountFaults

\* The token creates one account, whoever holds it and whenever the dashboard restarts.
\* The exception is two requests that had both compared before either removed it.
OneAdmin == Cardinality(users) > 1 => together

\* A dashboard without users can always be claimed: a token that parses is on disk, a
\* request that has used it up is creating the user, or one such request failed to.
WayIn ==
    up /\ users = {} =>
       \/ token.whole
       \/ spent
       \/ \E s \in Claimants : setup[s].at = "create"
=============================================================================
