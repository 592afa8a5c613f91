----------------------------- MODULE AccessPages -----------------------------
(***************************************************************************)
(* Users, roles, titles and workflows; the settings; the profile; the      *)
(* dashboard and the approval queues: src/web/src/app/(dashboard).         *)
(***************************************************************************)
EXTENDS PageKinds

SaveInDialog(steps) ==
    InDialog(Button("saving", {"active", "new"}, steps, {"close", "reload"}))
Dialog(kinds, parts, buttons) ==
    WithDialog(ListPage(MasterRow, {InDialog(b) : b \in buttons}), kinds, parts, {"active", "new"})

-----------------------------------------------------------------------------
(* Users.  A created user stays on the screen until Done.  The editor has  *)
(* the profile and the roles on two tabs with a save each: the one closes  *)
(* the dialog with whatever the other holds, the other only looks again.   *)

CreateUser == Button("saving", {"new"}, <<SaveHead>>, {"know"})
CreateUserModal == Dialog({"new"}, {"head"}, {CreateUser})

SaveProfile == Button("saving", {"active"}, <<SaveHead>>, {"close", "reload"})
SaveRoles == Button("saving", {"active"}, <<SaveRows>>, {"reload"})
RoleChecklist == {"rows"}
UnlockUser == Button("saving", {"active"}, <<Aside>>, {"reload"})
ResetPassword == Button("saving", {"active"}, <<Aside>>, {"reload"})
RemoveUser == Button("saving", {"active"}, <<Remove>>, {"close", "reload"})
EditUserModal ==
    Dialog({"old"}, {"head"} \cup RoleChecklist,
           {SaveProfile, SaveRoles, UnlockUser, ResetPassword, RemoveUser})
UsersPage == {CreateUserModal, EditUserModal}

(* Roles: the description and the permissions are two requests. *)
CreateRoleModal == Dialog({"new"}, {"head"}, {SaveInDialog(<<SaveHead>>)})
RemoveRole == Button("saving", {"active"}, <<Remove>>, {"close", "reload"})
PermissionEditBody == {"rows"}
EditRoleModal ==
    Dialog({"old"}, {"head"} \cup PermissionEditBody,
           {SaveInDialog(<<SaveHead, SaveRows>>), RemoveRole})
RolesPage == {CreateRoleModal, EditRoleModal}

TitleModal == SaveInDialog(<<SaveHead>>)
RemoveTitle == Button("deleting", {"active"}, <<Remove>>, {"reload"})
TitlesPage ==
    WithDialog(ListPage(MasterRow, {TitleModal, RemoveTitle}), {"old", "new"}, {"head"},
               {"active", "new"})

(* A workflow's mode, initiators, notifications and steps: four requests.  *)
ConfigureProcessModal ==
    Dialog({"old"}, Parts, {SaveInDialog(<<SaveHead, SaveHead, SaveHead, SaveRows>>)})
WorkflowsPage == {ConfigureProcessModal}

-----------------------------------------------------------------------------
(* Settings: a form takes every load, the tab bar has the Save button with *)
(* a lock of its own; a handler that refuses the form leaves the lock on.  *)

Panel(buttons) == DocumentPage(MasterRow, {"head"}, {"active"}, buttons)
useSettingsSave(after) == Button("saving", {"active"}, <<SaveHead>>, {"reload"} \cup after)
SendTest == Button("testing", {"active"}, <<Aside>>, {})

CompanyPanel == Panel({useSettingsSave({"adopt"})})
AttachmentsPanel == Panel({useSettingsSave({})})
SessionPanel == Panel({useSettingsSave({})})
EwuraPanel == Panel({useSettingsSave({})})
PrecisionPanel == Panel({useSettingsSave({"adopt"})})
MailPanel == Panel({useSettingsSave({}), SendTest})
SMSPanel == Panel({useSettingsSave({}), SendTest})
SaveSage == useSettingsSave({"reloadAnyway"})
SagePanel == Panel({SaveSage, SendTest})
SchedulesPanel == Panel({useSettingsSave({"locksOnRefusal"})})

(* A currency is added by a form that empties itself. *)
AddCurrency == Button("saving", {"new"}, <<SaveHead>>, {"clear", "reload"})
CurrenciesPanel ==
    [NewPage(MasterRow, {"head"}, {AddCurrency}) EXCEPT !.parts = {}]
SettingsPage ==
    {CompanyPanel, AttachmentsPanel, SessionPanel, EwuraPanel, PrecisionPanel, MailPanel,
     SMSPanel, SagePanel, SchedulesPanel, CurrenciesPanel}

-----------------------------------------------------------------------------
(* The profile.  A changed password goes to the dashboard and keeps its    *)
(* flag; a substitution is sent from a composer no load touches.           *)

ProfileTab == Panel({Button("saving", {"active"}, <<SaveHead>>, {"reload"})})
AppearanceTab == Panel({Button("saving", {"active"}, <<SaveHead>>, {"reload"})})
PasswordTab ==
    NewPage(MasterRow, {"head"}, {Button("saving", {"new"}, <<Aside>>, {"leave", "staysBusy"})})

SaveDelegation == Button("saving", {"active"}, <<SaveHead>>, {})
RemoveAssignment == Button("saving", {"active"}, <<DeriveRows>>, {})
ClearDelegations == Button("saving", {"active"}, <<DeriveRows>>, {"clear"})
DelegationTab ==
    [DocumentPage(MasterRow, {}, {"active"}, {SaveDelegation, RemoveAssignment, ClearDelegations})
     EXCEPT !.fields = {"head"}]
ProfilePage == {ProfileTab, AppearanceTab, PasswordTab, DelegationTab}

(* The dashboard saves its whole layout at every change, waiting for none. *)
DashboardPage == ListPage(MasterRow, {Button("", {"active"}, <<Aside>>, {})})

(* What an approver decides, or who is to amend, in a dialog of the queue. *)
ApprovalActModal == Button("busy", {"submitted", "returned"}, <<Decide>>, {"close", "reload"})
ApprovalsQueue ==
    WithDialog(ListPage(ApprovalTask, {InDialog(ApprovalActModal)}), {"old"}, {}, {"submitted", "returned"})

AccessDocumentPages ==
    UsersPage \cup RolesPage \cup WorkflowsPage \cup SettingsPage \cup ProfilePage
    \cup {TitlesPage, DashboardPage, ApprovalsQueue}
=============================================================================
