----------------------------- MODULE MCSession -----------------------------
(***************************************************************************)
(* Two configuration files, one of which lies beside an .elf with two      *)
(* variables; two layouts with no leaf in common.                          *)
(***************************************************************************)
EXTENDS Session

Motor == {"motor"}
Imu   == {"imu"}
Two   == {Motor, Imu}
WithEmpty == {Motor, {}}

Elfs  == {"fw.elf"}
Jsons == {"fw.json", "imu.json"}
Beside    == [p \in Elfs |-> "fw.json"]
Variables == [p \in Elfs |-> Two]
OrNothing == [p \in Elfs |-> WithEmpty]
Settings  == {"f0", "f1"}
Always == {TRUE}
Never  == {FALSE}
Maybe  == {TRUE, FALSE}
=============================================================================
