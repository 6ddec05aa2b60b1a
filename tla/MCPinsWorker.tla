---------------------------- MODULE MCPinsWorker ----------------------------
(* PinsWorker for TLC: the sets of commands of the runs.                   *)
EXTENDS PinsWorker
MoveCommands == {"tray_up", "tray_down", "brake", "clear_warning"}
AllCommands ==
  DOMAIN BitCommands \cup DOMAIN CabinetCommands \cup DOMAIN WordCommands \cup DataCommands
    \cup {"reg_read", "reg_write", "alarm_sync", "clear_warning", "tray_up", "tray_down",
          "start_vacuum", "start_vacuum_auto", "open_drain", "open_drain_auto",
          "block_test_manual", "block_test_auto", "leak_test_manual", "leak_test_auto", "brake"}
One == {1}
StopBit == {Stop}
=============================================================================
