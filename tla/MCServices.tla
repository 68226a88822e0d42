----------------------------- MODULE MCServices -----------------------------
(* The components beside the way to a provider: the release scripts, the      *)
(* command line and its workspace, the services of the sandbox, the Devin     *)
(* adapter, the context editor and the private files.  A behaviour picks one  *)
(* component at its start and stays in it.                                    *)
EXTENDS ReleaseRefs, ReleaseJobs, CliWorkspace, CliChat, EgressTunnel, BrowserSession, DevinTask,
        ContextEditor, PrivateFile

VARIABLE component

serviceVars == <<component, refVars, releaseVars, workspaceVars, chatVars, egressVars, browserVars, devinVars,
                 editorVars, fileVars>>

\* Three calls share one process, one more than its queue holds; one is alone.
WriterHome == [w \in Writers |-> IF w = "w4" THEN "p2" ELSE "p1"]

\* The calls of one process are alike: let them begin in the order of their names.
InOrder == /\ pc["w2"] # "idle" => pc["w1"] # "idle"
           /\ pc["w3"] # "idle" => pc["w2"] # "idle"

\* Transcripts of three items, with items of lines of their own and with two
\* items of one line; the context size is reported or left to the editor.
EditorItem(l, n, e) == [line |-> l, tokens |-> n, elidable |-> e]
EditorTranscripts ==
    {[context |-> c, items |-> s] : c \in {0, 3}, s \in
        {<<EditorItem(0, 1, TRUE), EditorItem(1, 2, FALSE), EditorItem(2, 3, TRUE)>>,
         <<EditorItem(0, 1, TRUE), EditorItem(1, 2, TRUE), EditorItem(1, 2, TRUE)>>}}

ServicesInit ==
    /\ component \in {"refs", "jobs", "workspace", "chat", "egress", "browser", "devin", "editor", "files"}
    /\ RefInit /\ JobInit /\ CliWorkspaceInit /\ ChatInit /\ EgressInit /\ BrowserInit /\ DevinInit
    /\ EditorInit /\ FileInit
    \* The other components start beside one of the states these Inits offer.
    /\ component # "refs" =>
         /\ job.mode = "promotion"
         /\ remote.tags = [v \in Versions |-> IF v = Requested THEN [c |-> 1, kind |-> "tag"] ELSE NoTag]
    /\ component # "editor" => transcript = CHOOSE t \in EditorTranscripts : TRUE
    /\ component # "workspace" => file = Absent
    /\ component # "files" => folder.name = 0 /\ reader.for = "vault"

ServicesNext ==
    /\ UNCHANGED component
    /\ \/ /\ component = "refs" /\ RefNext
          /\ UNCHANGED <<releaseVars, workspaceVars, chatVars, egressVars, browserVars, devinVars, editorVars, fileVars>>
       \/ /\ component = "jobs" /\ JobNext
          /\ UNCHANGED <<refVars, workspaceVars, chatVars, egressVars, browserVars, devinVars, editorVars, fileVars>>
       \/ /\ component = "workspace" /\ CliWorkspaceNext /\ InOrder'
          /\ UNCHANGED <<refVars, releaseVars, chatVars, egressVars, browserVars, devinVars, editorVars, fileVars>>
       \/ /\ component = "chat" /\ ChatNext
          /\ UNCHANGED <<refVars, releaseVars, workspaceVars, egressVars, browserVars, devinVars, editorVars, fileVars>>
       \/ /\ component = "egress" /\ EgressNext
          /\ UNCHANGED <<refVars, releaseVars, workspaceVars, chatVars, browserVars, devinVars, editorVars, fileVars>>
       \/ /\ component = "browser" /\ BrowserNext
          /\ UNCHANGED <<refVars, releaseVars, workspaceVars, chatVars, egressVars, devinVars, editorVars, fileVars>>
       \/ /\ component = "devin" /\ DevinNext
          /\ UNCHANGED <<refVars, releaseVars, workspaceVars, chatVars, egressVars, browserVars, editorVars, fileVars>>
       \/ /\ component = "editor" /\ EditorNext
          /\ UNCHANGED <<refVars, releaseVars, workspaceVars, chatVars, egressVars, browserVars, devinVars, fileVars>>
       \/ /\ component = "files" /\ FileNext
          /\ UNCHANGED <<refVars, releaseVars, workspaceVars, chatVars, egressVars, browserVars, devinVars, editorVars>>

ServicesSpec == ServicesInit /\ [][ServicesNext]_serviceVars
=============================================================================
