---------------------------- MODULE ConsolePages ----------------------------
(***************************************************************************)
(* Pages of the console that edit what they poll: the fields of the site   *)
(* form (SiteForm), one form of the settings (SettingsForms), the security *)
(* page (SecurityConsole), the message center (MessageCenter), the         *)
(* monitoring page (Monitoring) and the access logs (LogsPage).  The       *)
(* administrator looks at one of them at a time; a page is mounted anew on *)
(* every visit.  A behaviour is one visit of one page, and the others keep *)
(* the state they would start with.                                        *)
(***************************************************************************)
EXTENDS SiteForm, SettingsForms, SecurityConsole, MessageCenter, Monitoring,
        LogsPage

VARIABLE page     \* the page visited

pageVars ==
    <<page, vars, settingsVars, securityVars, messageVars, monitoringVars, logVars>>

\* The routes of App.tsx that lead to the pages, and the bell of AppShell.
PageInit ==
    /\ page \in {"site", "settings", "security", "messages", "monitoring", "logs"}
    /\ Init
    /\ page # "site" =>
           /\ editing = "basic"
           /\ site.domains = <<CHOOSE d \in Domains: TRUE>>
           /\ site.nodes = {CHOOSE n \in Nodes: TRUE}
    /\ SettingsInit
    /\ page # "settings" => form = DNSForm
    /\ SecurityInit
    /\ MessageInit
    /\ MonitoringInit
    /\ page # "monitoring" => targets = [t \in Targets |-> "absent"]
    /\ LogsInit

VisitSite ==
    /\ page = "site"
    /\ Next
    /\ UNCHANGED <<page, settingsVars, securityVars, messageVars, monitoringVars, logVars>>

VisitSettings ==
    /\ page = "settings"
    /\ SettingsNext
    /\ UNCHANGED <<page, vars, securityVars, messageVars, monitoringVars, logVars>>

VisitSecurity ==
    /\ page = "security"
    /\ SecurityNext
    /\ UNCHANGED <<page, vars, settingsVars, messageVars, monitoringVars, logVars>>

VisitMessages ==
    /\ page = "messages"
    /\ MessageNext
    /\ UNCHANGED <<page, vars, settingsVars, securityVars, monitoringVars, logVars>>

VisitMonitoring ==
    /\ page = "monitoring"
    /\ MonitoringNext
    /\ UNCHANGED <<page, vars, settingsVars, securityVars, messageVars, logVars>>

VisitLogs ==
    /\ page = "logs"
    /\ LogsNext
    /\ UNCHANGED <<page, vars, settingsVars, securityVars, messageVars, monitoringVars>>

PageNext ==
    \/ VisitSite \/ VisitSettings \/ VisitSecurity
    \/ VisitMessages \/ VisitMonitoring \/ VisitLogs

PageSpec == PageInit /\ [][PageNext]_pageVars
=============================================================================
