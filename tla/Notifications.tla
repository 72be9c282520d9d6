---------------------------- MODULE Notifications ----------------------------
(***************************************************************************)
(* The channels a project's events are sent to: the notification_configs   *)
(* table, its repository, service and handlers, and the notifiers.  A      *)
(* config is [live, project, channel, target, filter, enabled]; target is  *)
(* the URL in its settings, Nil when there is none, filter the set of      *)
(* event names it asks for, enabled "on" or "off".  Every route but the    *)
(* list and the creation takes the config by its id: the project in the    *)
(* path is not looked at.                                                  *)
(***************************************************************************)
EXTENDS AgentConfig

Channels == {"discord", "webhook"}

(* CHECK (channel_type IN ...) and the foreign key to projects. *)
ConfigConstraint(projects, cfg) ==
    CASE cfg.channel \notin Channels -> "check"
      [] cfg.channel \in Channels /\ cfg.project \notin Live(projects) -> "foreign_key"
      [] OTHER -> "none"
InsertNotificationConfig(T, projects, cfg) ==
    LET err == ConfigConstraint(projects, cfg)
    IN IF err # "none" THEN Refused(T, err)
       ELSE Insert(T, [live |-> TRUE, project |-> cfg.project, channel |-> cfg.channel,
                       target |-> cfg.target, filter |-> cfg.filter,
                       enabled |-> cfg.enabled], NoClash)
GetNotificationConfig(T, i) ==
    IF i \in Live(T) THEN Outcome(T, i, "none") ELSE Refused(T, "no_rows")
ListNotificationConfigsByProject(T, p) ==
    NewestFirst(RowsWhere(T, LAMBDA row : row.project = p))
UpdateNotificationConfig(T, i, cfg) ==
    CASE i \notin Live(T) -> Refused(T, "no_rows")
      [] i \in Live(T) /\ cfg.channel \notin Channels -> Refused(T, "check")
      [] OTHER -> Change(T, i, [T[i] EXCEPT !.channel = cfg.channel, !.target = cfg.target,
                                            !.filter = cfg.filter, !.enabled = cfg.enabled],
                         NoClash)
DeleteNotificationConfig(T, i) == Erase(T, i)
ListEnabledConfigsByProject(T, p) ==
    NewestFirst(RowsWhere(T, LAMBDA row : row.project = p /\ row.enabled = "on"))

ConfigRepoInsert(T, projects, cfg) == RepoExec(InsertNotificationConfig(T, projects, cfg))
ConfigRepoGet(T, i) == Repo(GetNotificationConfig(T, i))
ConfigRepoList(T, p) == ListNotificationConfigsByProject(T, p)
ConfigRepoUpdate(T, i, cfg) == Repo(UpdateNotificationConfig(T, i, cfg))
ConfigRepoDelete(T, i) == RepoExec(DeleteNotificationConfig(T, i))
ConfigRepoListEnabled(T, p) == ListEnabledConfigsByProject(T, p)

-----------------------------------------------------------------------------
(* A notifier posts to the target; answer is what comes back.               *)

Send(cfg, answer) ==
    CASE cfg.target = Nil -> "validation"
      [] cfg.target # Nil /\ answer = "2xx" -> "ok"
      [] OTHER -> "internal"

ConfigServiceTest(T, i, answer) ==
    LET o == ConfigRepoGet(T, i)
    IN CASE ~Ok(o) -> o
         [] Ok(o) /\ T[i].channel \notin Channels -> Invalid(T)
         [] OTHER -> [o EXCEPT !.err = Send(T[i], answer)]

ListConfigsRequest(T, p) == Read(ConfigRepoList(T, p))
(* A channel is enabled unless the request says otherwise; a missing filter *)
(* is the empty one.                                                        *)
CreateConfigRequest(T, projects, cfg) ==
    IF cfg.channel \notin Channels THEN Reply(T, Invalid(T), 201)
    ELSE Reply(T, ConfigRepoInsert(T, projects,
                    [cfg EXCEPT !.enabled = Coalesce(@, "on")]), 201)
UpdateConfigRequest(T, i, cfg) == Reply(T, ConfigRepoUpdate(T, i, cfg), 200)
DeleteConfigRequest(T, i) == Reply(T, ConfigRepoDelete(T, i), 204)
TestConfigRequest(T, i, answer) == Reply(T, ConfigServiceTest(T, i, answer), 204)
=============================================================================
