--------------------------- MODULE MCWiredTigerRun ---------------------------
(* Instances of WiredTigerRun.                                             *)
EXTENDS WiredTigerRun

ZeroAndTwo == {0, 2}
OnlyTwo    == {2}

WithGap    == {{0, 2}}
AllLoaded  == {Key}

\* do_insert is do_update: one of the two is enough.
FourTypes  == OpTypes \ {"UPDATE"}
YcsbE      == {"SCAN", "INSERT"}
=============================================================================
