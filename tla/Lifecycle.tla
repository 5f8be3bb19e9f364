------------------------------ MODULE Lifecycle ------------------------------
(***************************************************************************)
(* The catalog lifecycle and the role table: domain/lifecycle.py and       *)
(* domain/permissions.py.  Pure tables, shared by every module that moves  *)
(* a catalog.  A Python mapping that may miss a key is a relation here, a  *)
(* set of tuples, and the set of its images is empty where the mapping's   *)
(* `.get` returns None.                                                    *)
(***************************************************************************)

Statuses == {"draft", "published", "unpublished", "archived"}

\* ACTIONS (the bare name is a reserved word of TLA+); the order the API lists them in is layout.
CatalogActions ==
    {"edit", "publish", "unpublish", "archive", "unarchive", "delete", "recommend"}

\* Mutant: an archived catalog offers `publish`, which no transition accepts.
STATUS_ACTIONS_ArchivedPublishes ==
    [status \in Statuses |->
        CASE status = "draft"       -> {"edit", "publish", "delete"}
          [] status = "published"   -> {"edit", "unpublish", "archive", "recommend"}
          [] status = "unpublished" -> {"edit", "publish", "archive"}
          [] status = "archived"    -> {"unarchive", "publish"}]

STATUS_ACTIONS ==
    [status \in Statuses |->
        CASE status = "draft"       -> {"edit", "publish", "delete"}
          [] status = "published"   -> {"edit", "unpublish", "archive", "recommend"}
          [] status = "unpublished" -> {"edit", "publish", "archive"}
          [] status = "archived"    -> {"unarchive"}]

TRANSITION_ACTIONS == {"publish", "unpublish", "archive", "unarchive"}

\* <<from, action, to>>
TRANSITIONS ==
    { <<"draft",       "publish",   "published">>,
      <<"published",   "unpublish", "unpublished">>,
      <<"published",   "archive",   "archived">>,
      <<"unpublished", "publish",   "published">>,
      <<"unpublished", "archive",   "archived">>,
      <<"archived",    "unarchive", "unpublished">> }

\* Mutant: every archive offers unarchive, which lands on unpublished wherever it came from.
UNDO_ACTIONS_EveryArchive ==
    { <<"published",   "unpublish", "publish">>,
      <<"published",   "archive",   "unarchive">>,
      <<"unpublished", "publish",   "unpublish">>,
      <<"unpublished", "archive",   "unarchive">> }

\* <<from, action, the action that undoes it>>
UNDO_ACTIONS ==
    { <<"published",   "unpublish", "publish">>,
      <<"unpublished", "publish",   "unpublish">>,
      <<"unpublished", "archive",   "unarchive">> }

\* TRANSITIONS.get and UNDO_ACTIONS.get: at most one element, none where Python has None.
Targets(status, action) == {to \in Statuses : <<status, action, to>> \in TRANSITIONS}
Undos(status, action) ==
    {undo \in TRANSITION_ACTIONS : <<status, action, undo>> \in UNDO_ACTIONS}

-----------------------------------------------------------------------------
Roles == {"viewer", "editor", "admin"}

VIEWER_PERMISSIONS == {"backoffice.view", "catalog.view", "country.view"}

EDITOR_PERMISSIONS ==
    VIEWER_PERMISSIONS \cup
        { "catalog.create", "catalog.edit", "catalog.publish", "catalog.unpublish",
          "catalog.archive", "catalog.unarchive", "catalog.delete", "catalog.recommend" }

ADMIN_PERMISSIONS ==
    EDITOR_PERMISSIONS \cup
        {"country.manage_subdivisions", "user.view", "user.change_role", "user.deactivate"}

build_permissions(role) ==
    CASE role = "viewer" -> VIEWER_PERMISSIONS
      [] role = "editor" -> EDITOR_PERMISSIONS
      [] role = "admin"  -> ADMIN_PERMISSIONS

\* The permission `catalog.{action}` of the service, per action.
CatalogPermission ==
    [action \in CatalogActions |->
        CASE action = "edit"      -> "catalog.edit"
          [] action = "publish"   -> "catalog.publish"
          [] action = "unpublish" -> "catalog.unpublish"
          [] action = "archive"   -> "catalog.archive"
          [] action = "unarchive" -> "catalog.unarchive"
          [] action = "delete"    -> "catalog.delete"
          [] action = "recommend" -> "catalog.recommend"]

build_allowed_actions(status, permissions) ==
    {action \in CatalogActions :
        action \in STATUS_ACTIONS[status] /\ CatalogPermission[action] \in permissions}
=============================================================================
