-------------------------- MODULE AccountServices ---------------------------
(***************************************************************************)
(* The services of one account that share no row, no key and no memory:    *)
(* autonomous signals within the risk budget, the limits of the plan, the  *)
(* withdrawal ratchet and the signup checkout.  What each of them does is  *)
(* the same whatever the others do, so a behaviour follows one of them,    *)
(* the focus, while the others stand still.                                *)
(***************************************************************************)
EXTENDS AutonomousSignals, PlanLimits, Withdrawals, SignupCheckout

Services == {"signals", "devices", "quotas", "withdrawals", "checkout"}

CONSTANT Observed \* the services to follow

ASSUME ServicesAssumption == Observed \subseteq Services

VARIABLE focus

accountVars == <<focus, vars, limitVars, withdrawalVars, checkoutVars>>

AccountTypeOK ==
    /\ focus \in Observed
    /\ TypeOK /\ LimitsTypeOK /\ WithdrawalTypeOK /\ CheckoutTypeOK

AccountInit ==
    /\ focus \in Observed
    /\ Init /\ LimitsInit /\ WithdrawalInit /\ CheckoutInit
    /\ focus # "signals" =>
           row = (CHOOSE r \in Stored : TRUE) /\ scene = (CHOOSE s \in Scenes : TRUE)
    /\ focus \notin {"devices", "quotas"} => limit = (CHOOSE l \in PlanLimitsOf : TRUE)

AccountNext ==
    /\ \/ /\ focus = "signals"
          /\ Next /\ UNCHANGED <<limitVars, withdrawalVars, checkoutVars>>
       \/ /\ focus = "devices"
          /\ DeviceNext /\ UNCHANGED <<vars, withdrawalVars, checkoutVars>>
       \/ /\ focus = "quotas"
          /\ QuotaNext /\ UNCHANGED <<vars, withdrawalVars, checkoutVars>>
       \/ /\ focus = "withdrawals"
          /\ WithdrawalNext /\ UNCHANGED <<vars, limitVars, checkoutVars>>
       \/ /\ focus = "checkout"
          /\ CheckoutNext /\ UNCHANGED <<vars, limitVars, withdrawalVars>>
    /\ UNCHANGED focus

AccountSpec == AccountInit /\ [][AccountNext]_accountVars
=============================================================================
