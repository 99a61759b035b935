------------------------------ MODULE CoPilotTools ------------------------------
(***************************************************************************)
(* The tools of the assistant panel: which there are and what each one asks *)
(* of the backend (components/assistant/tools/registry.ts), which of them a *)
(* page offers, and which permission the panel wants for each one           *)
(* (components/assistant/toolPerms.ts). A tool is its name. What it does is *)
(* a request, whose route lets through whoever has one of some permissions, *)
(* or a change of the editor in the same browser. The id in a page's key is *)
(* left out.                                                               *)
(***************************************************************************)
EXTENDS NoValue, TLC

(* Tools whose requests the backend accepts with any of these permissions.  *)
Guarded(tools, permissions) == [tool \in tools |-> permissions]

(* Any user may send them, or nothing is sent.                              *)
Open(tools) == Guarded(tools, {})

EditorTools == Open(
  {"read_code", "replace_code", "get_node_config", "update_node_field", "get_available_nodes",
   "open_node", "add_node", "delete_node", "remove_edge", "close_node_config", "connect_nodes",
   "get_canvas_state", "get_node_details", "list_canvas_nodes", "get_node_output_shape",
   "set_node_output_schema", "get_node_type_info"})
FlowJsonTools == Open({"get_flow_json"}) @@ Guarded({"update_flow"}, {"flow:edit"})
SaveFlowTool == Guarded({"save_flow"}, {"flow:edit"})
RunFlowTool == Open({"run_flow"})
FlowInfoTools == Open({"get_flow_info", "get_debug_results"})
EndpointTools ==
  Guarded({"list_endpoints"}, {"endpoint:read"})
  @@ Guarded({"create_endpoint", "delete_endpoint"}, {"endpoint:write", "endpoint:write_group"})
EndpointDetailTools ==
  Guarded({"update_endpoint"}, {"endpoint:write", "endpoint:write_group"})
  @@ Guarded({"get_endpoint"}, {"endpoint:read"}) @@ Open({"get_default_endpoint"})
ServerTools ==
  Open({"list_mcp_servers"})
  @@ Guarded({"create_mcp_server", "delete_mcp_server", "refresh_mcp_tools"},
             {"mcp:write", "mcp:write_group"})
ServerDetailTools ==
  Guarded({"update_mcp_server"}, {"mcp:write", "mcp:write_group"}) @@ Open({"get_mcp_server"})
EmbeddingTools ==
  Guarded({"list_embedding_providers"}, {"embedding:read"})
  @@ Guarded({"create_embedding_provider", "delete_embedding_provider"},
             {"embedding:write", "embedding:write_group"})
EmbeddingDetailTools ==
  Guarded({"update_embedding_provider"}, {"embedding:write", "embedding:write_group"})
  @@ Guarded({"get_embedding_provider"}, {"embedding:read"})
StoreTools ==
  Open({"list_vector_stores"})
  @@ Guarded({"create_vector_store", "delete_vector_store"}, {"store:write", "store:write_group"})
StoreDetailTools ==
  Open({"get_vector_store", "list_collections"})
  @@ Guarded({"update_vector_store", "refresh_collections"}, {"store:write", "store:write_group"})
KnowledgeTools ==
  Open({"list_knowledge_collections", "get_knowledge_collection"})
  @@ Guarded({"upload_knowledge_document", "delete_knowledge_collection",
              "delete_knowledge_document"}, {"knowledge:write"})
UserTools == Guarded({"list_users", "create_user", "delete_user", "update_user_role"}, {"admin"})
AdminTools ==
  Guarded({"list_roles", "seed_roles", "set_user_groups"}, {"admin"})
  @@ Guarded({"update_group_member_role"}, {"admin", "groups:manage"})
UpdateProfileTool == Open({"update_profile"})
ProfileTools ==
  Open({"get_my_profile", "change_password", "get_auth_config", "get_setup_status"})
ListFlowTools == Open({"list_flows", "search_flows"})
FlowCrudTools ==
  Guarded({"create_flow"}, {"flow:create"}) @@ Guarded({"delete_flow"}, {"flow:delete"})
  @@ Open({"get_flow_by_id", "validate_flow"})
ExecuteFlowTool == Guarded({"execute_flow"}, {"flow:create"})
CancelExecutionTool == Guarded({"cancel_execution"}, {"flow:edit"})
Navigation == Open({"navigate_to"})
ApprovalTools ==
  Guarded({"get_pending_approvals"}, {"execution:approve"})
  @@ Open({"approve_execution", "reject_execution"})
AssignmentTools ==
  Open({"list_assignments"}) @@ Guarded({"decide_assignment"}, {"execution:approve"})
ExecutionTools ==
  Guarded({"list_executions"}, {"admin"})
  @@ Guarded({"get_execution_details", "delete_execution"}, {"execution:approve"})
SecretTools ==
  Open({"list_secrets"})
  @@ Guarded({"create_secret", "update_secret", "delete_secret"}, {"secrets:write"})
  @@ Guarded({"rotate_key"}, {"secrets:rotate"})
RevealTools ==
  Guarded({"reveal_secret"}, {"secrets:read", "secrets:write"})
  @@ Guarded({"get_secret_audit_log"}, {"secrets:audit"})
  @@ Guarded({"re_encrypt_secrets"}, {"secrets:rotate"})
VaultTools ==
  Guarded({"list_vaults"}, {"vaults:read"}) @@ Guarded({"test_vault_connection"}, {"vaults:write"})
VaultCrudTools == Guarded({"create_vault", "update_vault", "delete_vault"}, {"vaults:write"})
EnvVarTools ==
  Guarded({"list_env_vars", "update_env_vars"}, {"admin"})
  @@ Open({"get_group_env_vars", "set_group_env_vars"})

(* list_groups shows those who are not administrators their own groups.     *)
GroupVaultTools == Open({"list_groups", "get_group_vault", "set_group_vault"})
GlobalContextTools ==
  Open({"get_global_context"}) @@ Guarded({"update_global_context"}, {"admin"})
SsoTool == Guarded({"get_sso_config"}, {"admin"})
UpdateSsoTool == Guarded({"update_sso_config"}, {"admin"})
GroupContextTools == Open({"get_group_context", "update_group_context"})
GroupTools ==
  Guarded({"create_group", "update_group", "delete_group", "add_group_member",
           "remove_group_member"}, {"group:write"})
ContextTools ==
  Open({"list_agent_contexts"}) @@ Guarded({"create_agent_context"}, {"flow:create"})
  @@ Guarded({"update_agent_context"}, {"flow:edit"})
  @@ Guarded({"delete_agent_context"}, {"flow:delete"})
SessionTools ==
  Open({"list_chat_sessions"}) @@ Guarded({"create_chat_session"}, {"chat:create"})
  @@ Guarded({"delete_chat_session"}, {"flow:edit"})
SendMessageTool == Guarded({"send_chat_message"}, {"chat:create"})
ChatApiTools ==
  Guarded({"get_chat_api_deployment", "update_chat_api_deployment", "list_chat_api_keys",
           "create_chat_api_key", "delete_chat_api_key"}, {"flow:edit"})
WebhookTools ==
  Guarded({"get_webhook_deployment", "update_webhook_deployment", "renew_webhook_api_key",
           "revoke_webhook_api_key"}, {"flow:edit"})

-------------------------------------------------------------------------------
(* The groups of the registry *)

FlowEditorTools ==
  EditorTools @@ FlowJsonTools @@ SaveFlowTool @@ RunFlowTool @@ FlowInfoTools @@ ListFlowTools
EndpointCrud == EndpointTools @@ EndpointDetailTools
McpCrud == ServerTools @@ ServerDetailTools
EmbeddingCrud == EmbeddingTools @@ EmbeddingDetailTools
StoreCrud == StoreTools @@ StoreDetailTools
SecretCrud == SecretTools @@ RevealTools
VaultCrud == VaultTools @@ VaultCrudTools
ProfileCrud == UpdateProfileTool @@ ProfileTools
FlowsListCrud == ListFlowTools @@ FlowCrudTools @@ ExecuteFlowTool
ExecutionCrud == ExecutionTools @@ CancelExecutionTool
SsoCrud == SsoTool @@ UpdateSsoTool
ChatCrud == SessionTools @@ SendMessageTool

(* The resources the editor of a flow may list.                             *)
ReadResources ==
  [tool \in {"list_endpoints", "list_mcp_servers", "list_embedding_providers",
             "list_vector_stores"}
     |-> (EndpointTools @@ ServerTools @@ EmbeddingTools @@ StoreTools)[tool]]

SettingsTools ==
  EndpointCrud @@ McpCrud @@ EmbeddingCrud @@ StoreCrud @@ KnowledgeTools @@ UserTools
    @@ AdminTools @@ SecretCrud @@ VaultCrud @@ EnvVarTools @@ GroupTools
    @@ GlobalContextTools @@ SsoCrud @@ ExecutionCrud

(* The tools of a page, with those of navigation.                           *)
OfferedAt(key) ==
  Navigation @@
  CASE key = "flow:" -> FlowEditorTools @@ ReadResources @@ ContextTools @@ GroupTools
                          @@ WebhookTools @@ ChatApiTools
    [] key = "settings" -> SettingsTools
    [] key = "settings:endpoints" -> EndpointCrud
    [] key = "settings:mcp-servers" -> McpCrud
    [] key = "settings:knowledge" -> EmbeddingCrud @@ StoreCrud @@ KnowledgeTools
    [] key = "settings:users" -> UserTools @@ AdminTools
    [] key = "settings:secrets" -> SecretCrud @@ GroupVaultTools
    [] key = "settings:secret-vaults" -> VaultCrud
    [] key = "settings:groups" -> GroupVaultTools @@ GroupContextTools @@ GroupTools
                                    @@ ContextTools
    [] key = "settings:global-context" -> GlobalContextTools @@ GroupContextTools
    [] key = "settings:sso" -> SsoCrud
    [] key = "settings:env-vars" -> EnvVarTools
    [] key \in {"settings:executions", "executions:"} -> ExecutionCrud
    [] key = "approvals" -> ApprovalTools @@ AssignmentTools
    [] key = "profile" -> ProfileCrud
    [] key \in {"flows-list", "flows"} -> FlowsListCrud @@ GroupTools @@ ContextTools
    [] key \in {"chat:", "chat-sessions:"} -> ChatCrud
    [] OTHER -> Open({})

ToolsOf(key) == DOMAIN OfferedAt(key)

(* TOOL_PERMS: the permission the panel wants for a tool, or None.          *)
Needs(tool) ==
  CASE tool \in {"list_endpoints", "get_endpoint", "get_default_endpoint"} -> "endpoint:read"
    [] tool \in {"create_endpoint", "delete_endpoint", "update_endpoint"} -> "endpoint:write"
    [] tool \in {"list_mcp_servers", "get_mcp_server"} -> "mcp:read"
    [] tool \in {"create_mcp_server", "delete_mcp_server", "refresh_mcp_tools",
                 "update_mcp_server"} -> "mcp:write"
    [] tool \in {"list_embedding_providers", "get_embedding_provider"} -> "embedding:read"
    [] tool \in {"create_embedding_provider", "delete_embedding_provider",
                 "update_embedding_provider"} -> "embedding:write"
    [] tool \in {"list_vector_stores", "get_vector_store", "list_collections"} -> "store:read"
    [] tool \in {"create_vector_store", "delete_vector_store", "update_vector_store",
                 "refresh_collections"} -> "store:write"
    [] tool \in DOMAIN (UserTools @@ AdminTools @@ EnvVarTools @@ GlobalContextTools @@ SsoCrud)
                  \cup {"list_executions"} -> "admin"
    [] tool \in {"create_flow", "execute_flow", "create_agent_context"} -> "flow:create"
    [] tool \in {"update_flow", "save_flow", "validate_flow", "update_agent_context",
                 "cancel_execution", "delete_chat_session"}
                  \cup DOMAIN (ChatApiTools @@ WebhookTools) -> "flow:edit"
    [] tool \in {"delete_flow", "delete_agent_context"} -> "flow:delete"
    [] tool \in DOMAIN ApprovalTools \cup {"decide_assignment", "delete_execution",
                                    "get_execution_details"} -> "execution:approve"
    [] tool \in {"create_secret", "update_secret", "delete_secret"} -> "secrets:write"
    [] tool = "reveal_secret" -> "secrets:read"
    [] tool = "get_secret_audit_log" -> "secrets:audit"
    [] tool \in {"rotate_key", "re_encrypt_secrets"} -> "secrets:rotate"
    [] tool = "list_vaults" -> "vaults:read"
    [] tool \in DOMAIN VaultCrudTools \cup {"test_vault_connection", "set_group_vault"} ->
         "vaults:write"
    [] tool = "list_groups" -> "group:read"
    [] tool \in DOMAIN GroupTools -> "group:write"
    [] tool \in {"upload_knowledge_document", "delete_knowledge_collection",
                 "delete_knowledge_document"} -> "knowledge:write"
    [] tool \in {"create_chat_session", "send_chat_message"} -> "chat:create"
    [] OTHER -> None

(* The tools of those offered that permissions allow.                       *)
Allowed(offered, permissions) ==
  {tool \in offered : Needs(tool) = None \/ Needs(tool) \in permissions}

(* requirePermission: the backend takes the request of a tool from a user   *)
(* with one of the permissions its route names, and from administrators.    *)
Accepted(offer, tool, permissions) ==
  offer[tool] = {} \/ "admin" \in permissions \/ offer[tool] \cap permissions # {}
================================================================================
