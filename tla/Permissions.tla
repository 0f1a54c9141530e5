---------------------------- MODULE Permissions ----------------------------
(* What each role of omp-server (role.rs) may do.                           *)

RoleNames == {"Controller", "InteractiveDriver", "Spectator",
              "SubagentInspector", "AutomationWorker"}

Permission(role) ==
    LET reads == {"ReadSnapshot", "SubscribePatches", "AccessArtifact"} IN
    CASE role = "InteractiveDriver" ->
             reads \cup {"SubmitCommand", "Approve", "SignalJob",
                         "ChangeConVar", "SubmitPatch", "AttachSubagent"}
      [] role = "AutomationWorker" ->
             reads \cup {"SubmitCommand", "SignalJob", "WriteWorkspace",
                         "SubmitPatch"}
      [] role = "Controller" ->
             reads \cup {"SubmitCommand", "Approve", "SignalJob",
                         "ChangeConVar", "SubmitPatch", "AttachSubagent",
                         "WriteWorkspace", "ManageSession"}
      [] OTHER -> reads

=============================================================================
