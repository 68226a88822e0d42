--------------------------- MODULE AccountCustody ---------------------------
(***************************************************************************)
(* What xcb promises about a provider account, whatever processes and      *)
(* tables it is made of: a run takes the account, its provider may live    *)
(* only while it has it, and the account is given back only when that      *)
(* provider is gone.  No clock takes an account away from its holder.      *)
(***************************************************************************)
CONSTANTS Accounts, Runs, NoRun

VARIABLES
  holder,   \* holder[a]: the run that has account a, or NoRun
  live,     \* the runs whose provider process exists
  used      \* run ids already given out

custodyVars == << holder, live, used >>

CustodyInit ==
  /\ holder = [a \in Accounts |-> NoRun]
  /\ live   = {}
  /\ used   = {}

Acquire(a, r) ==
  /\ holder[a] = NoRun
  /\ r \notin used
  /\ holder' = [holder EXCEPT ![a] = r]
  /\ used'   = used \cup {r}
  /\ UNCHANGED live

Start(a) ==
  /\ holder[a] # NoRun
  /\ live' = live \cup {holder[a]}
  /\ UNCHANGED << holder, used >>

Stop(r) ==
  /\ live' = live \ {r}
  /\ UNCHANGED << holder, used >>

GiveBack(a) ==
  /\ holder[a] # NoRun
  /\ holder[a] \notin live
  /\ holder' = [holder EXCEPT ![a] = NoRun]
  /\ UNCHANGED << live, used >>

CustodyNext ==
  \/ \E a \in Accounts, r \in Runs : Acquire(a, r)
  \/ \E a \in Accounts : Start(a) \/ GiveBack(a)
  \/ \E r \in Runs : Stop(r)

CustodySpec == CustodyInit /\ [][CustodyNext]_custodyVars
=============================================================================
