----------------------------- MODULE MCOneThread -----------------------------
(* A program of one thread that uses a certificate store, a pair of cipher *)
(* filters, big integers, number theory or a key. They share nothing, so   *)
(* each is used alone.                                                     *)
EXTENDS MCX509Store, MCBlockModes, MCBigIntegers, MCPublicKeys

VARIABLE used

OneThreadInit ==
  /\ used \in {"store", "filters", "numbers", "theory", "keys"}
  /\ StoreInit /\ ModesInit /\ BigInit /\ NumberInit /\ KeysInit
  /\ used # "filters" => mode = CHOOSE m \in Modes : TRUE
  /\ used # "numbers" => a = b /\ is_zero(a)

OneThreadNext ==
  /\ UNCHANGED used
  /\ \/ used = "store" /\ StoreNext /\ UNCHANGED <<modeVars, bigVars, numberVars, keyVars>>
     \/ used = "filters" /\ ModesNext /\ UNCHANGED <<storeVars, bigVars, numberVars, keyVars>>
     \/ used = "numbers" /\ BigNext /\ UNCHANGED <<storeVars, modeVars, numberVars, keyVars>>
     \/ used = "theory" /\ NumberNext /\ UNCHANGED <<storeVars, modeVars, bigVars, keyVars>>
     \/ used = "keys" /\ KeysNext /\ UNCHANGED <<storeVars, modeVars, bigVars, numberVars>>

OneThreadSpec ==
  OneThreadInit /\ [][OneThreadNext]_<<used, storeVars, modeVars, bigVars, numberVars, keyVars>>
=============================================================================
