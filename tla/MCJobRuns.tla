----------------------------- MODULE MCJobRuns -----------------------------
(* Small instances of JobRuns for TLC.                                      *)
EXTENDS JobRuns

BridgeThenTx == <<"bridge", "ethtx">>
PlainThenTx  == <<"plain", "ethtx">>
TxThenTx     == <<"ethtx", "ethtx">>
NoConfs      == <<0, 0>>
TwoConfs     == <<2, 2>>
=============================================================================
