----------------------------- MODULE ToolCatalog -----------------------------
(***************************************************************************)
(* The tools of the MCP server (packages/mcp-server/src/tools and          *)
(* upgrade-catalog.ts), and the two policies asked before one is executed: *)
(* destructive-policy.ts looks at the input, the permission profile at the *)
(* level of the tool.                                                      *)
(*                                                                         *)
(* A tool is its level and its annotations.  An input is what the policies *)
(* look at: a program without its ".exe", the words of its arguments in    *)
(* their order (`args`, with the `dashed` ones among them), and the set of *)
(* its actions or contents (`words`).  A word is what the patterns of the  *)
(* code find as one, in lower case but for the flags whose case counts.    *)
(***************************************************************************)
EXTENDS Naturals, FiniteSets, Sequences, TLC

Tools(names, level, readOnly, hint) ==
    {[name |-> n, level |-> level, readOnly |-> readOnly, hint |-> hint] : n \in names}
Reads(names) == Tools(names, "READ", TRUE, FALSE)
Writes(names) == Tools(names, "WRITE", FALSE, FALSE)
Runs(names) == Tools(names, "EXECUTE", FALSE, FALSE)
Dangers(names) == Tools(names, "DANGEROUS", FALSE, TRUE)

WorkspaceTools ==
    Reads({"workspace_info", "workspace_tree", "project_snapshot"})
        \union Writes({"workspace_register"}) \union Tools({"workspace_list"}, "DANGEROUS", FALSE, FALSE)
FileTools ==
    Reads({"read_file", "read_files"})
        \union Writes({"write_file", "apply_patch", "move_file", "copy_file"}) \union Dangers({"delete_file"})
SearchTools == Reads({"search_files", "search_text"})
GitTools == Reads({"git_status", "git_diff", "git_log"}) \union Tools({"git"}, "EXECUTE", FALSE, TRUE)
ProcessTools ==
    Reads({"process_status", "process_logs"})
        \union Runs({"process_start", "process_stop", "project_dev", "project_test",
                 "project_lint", "project_typecheck", "project_build"})
CodexTools == Reads({"codex_status", "codex_task_status", "codex_task_logs"}) \union Runs({"codex_run", "codex_stop"})
CapabilityTools ==
    Reads({"vision", "vision_annotated_capture", "health", "system_info", "wsl_fs"})
        \union Runs({"notification"}) \union Tools({"file_dialog"}, "EXECUTE", TRUE, FALSE)
        \union Tools({"shell", "wsl_exec"}, "EXECUTE", FALSE, TRUE)
        \union Dangers({"dom_cdp", "accessibility", "input_event", "ui_target_action", "window", "scheduler"})
        \union Tools({"clipboard", "audio", "screen_record", "office"}, "DANGEROUS", FALSE, FALSE)
        \union Tools({"web_fetch"}, "DANGEROUS", TRUE, FALSE)
SkillTools == Dangers({"skills_list", "skills_read"})
BridgeTools == Dangers({"mcp_list", "mcp_describe", "mcp_call"})
ContextTools ==
    Reads({"workspace_context", "workspace_context_continue", "workspace_full_scan",
           "workspace_full_scan_continue", "workspace_snapshot", "search_all", "read_many_files"})
FilePageTools == Reads({"read_file_page", "read_file_page_continue"})
IndexTools == Reads({"workspace_index", "workspace_index_status", "workspace_index_watch", "workspace_index_stop"})
UpgradeReads == Reads({
        "symbol_search", "find_definition", "find_references",
        "find_implementations", "call_hierarchy", "import_graph",
        "dependency_graph", "module_graph", "type_search", "trace_symbol",
        "context_ranking", "debug_context", "review_context",
        "change_context", "symbol_context", "test_context",
        "dependency_context", "git_context", "frontend_context",
        "backend_context", "route_intent", "recipe_list", "recipe_describe",
        "dry_run", "review_changes", "changed_symbols", "affected_modules",
        "git_history_context", "git_blame_context", "discover_tests",
        "test_failures", "coverage_context", "test_history", "cache_stats",
        "hook_list", "skill_match", "skill_load", "plugin_list",
        "session_context", "session_resume", "session_history",
        "response_mode", "inspect_web_app", "debug_ui", "capture_ui_state",
        "form_context", "network_context", "console_context",
        "browser_debug_context", "windows_environment", "service_context",
        "process_context", "port_context", "registry_context",
        "event_log_context", "installed_runtime_context", "path_context",
        "startup_context", "mcp_discover", "mcp_health", "mcp_resources",
        "task_status", "task_result", "task_list", "delegate_status",
        "delegate_result", "permission_check", "permission_profile",
        "live_logs_query", "live_logs_status", "telemetry_dashboard",
        "context_economy_stats", "execution_plan", "repo_map",
        "context_expand", "recovery_status", "tool_schema_list",
        "capabilities", "tool_search", "tool_dynamic_filter",
        "tool_describe", "tool_categories", "tool_function_find",
        "tool_aliases", "mcp_hub", "dev_context", "recipe_catalog",
        "capture_screenshot", "compare_screenshot", "dom_snapshot",
        "layout_metadata", "visual_context", "inspect_workbook",
        "compare_workbook_layout", "render_excel_preview", "inspect_pdf",
        "compare_pdf_pages", "project_profile_get", "handoff_context",
        "regression_report", "crash_trace", "lsp_diagnostics", "db_inspect",
        "pdf_extract_tables", "self_heal_plan"})
UpgradeTools ==
    UpgradeReads
        \union Runs({
        "recipe_run", "run_affected_tests", "task_create", "task_cancel",
        "delegate", "delegate_cancel", "parallel_delegate", "benchmark_run",
        "sandbox_exec", "event_watch", "debug_attach", "debug_step",
        "agent_swarm_run"})
        \union Writes({
        "cache_clear", "cache_invalidate", "hook_register", "hook_remove",
        "plugin_enable", "plugin_disable", "session_checkpoint",
        "tool_schema_register", "project_profile_set", "lsp_rename",
        "docx_merge", "skills_import"})
        \union Dangers({
        "plugin_install", "plugin_remove", "git_worktree_spawn", "db_query",
        "office_ppt", "office_outlook", "self_heal_apply"})
BatchTools == Dangers({"tool_batch"})

Families ==
    <<WorkspaceTools, FileTools, SearchTools, GitTools, ProcessTools, CodexTools, CapabilityTools, SkillTools,
      BridgeTools, ContextTools, FilePageTools, IndexTools, UpgradeTools, BatchTools>>
AllTools == UNION {Families[i] : i \in DOMAIN Families}
ToolNames == {t.name : t \in AllTools}
Catalog == [n \in ToolNames |-> CHOOSE t \in AllTools : t.name = n]

(* register, and what a batch takes for safe to run beside others.         *)
ParallelSafe(tool) == tool.level = "READ" /\ tool.readOnly /\ ~tool.hint

-----------------------------------------------------------------------------
(* inspectGit: subcommands that discard or delete, some only with a flag.  *)
(* The first argument without a dash is taken for the subcommand, though   *)
(* it may be the value of an option, as in git -C dir reset.               *)
GitDiscards == {"clean", "rm", "reset", "restore", "rebase", "prune"}
GitFlags ==
    [checkout |-> {"-f", "--force", "--", "-B"},
     switch |-> {"-f", "--force", "--discard-changes", "--force-create", "-C"},
     branch |-> {"-d", "-D", "--delete", "-f", "--force"},
     tag |-> {"-d", "--delete", "-f", "--force"},
     stash |-> {"pop", "drop", "clear"}, reflog |-> {"expire", "delete"}, worktree |-> {"remove", "prune"},
     push |-> {"-f", "--force", "--force-with-lease", "--delete"}, commit |-> {"--amend"}]
Discards(in, k) ==
    \/ in.args[k] \in GitDiscards
    \/ /\ in.args[k] \in DOMAIN GitFlags
       /\ \E i \in DOMAIN in.args : i > k /\ in.args[i] \in GitFlags[in.args[k]]
Undashed(in) == {i \in DOMAIN in.args : in.args[i] \notin in.dashed}
First(in, k) == k \in Undashed(in) /\ ~\E i \in Undashed(in) : i < k
InspectGit(in) == \E k \in DOMAIN in.args : First(in, k) /\ Discards(in, k)

(* inspectShell: programs that delete, and interpreters told to.  What a   *)
(* PowerShell command says as "git rm" is not looked at, and Set-Content   *)
(* is let be beside a name that goes on in -addcontent (the parameter      *)
(* -AddContent itself is not what the pattern finds).                      *)
Deleters == {"del", "erase", "rm", "rmdir", "rd", "unlink"}
PowerShells == {"powershell", "pwsh"}
GitRm(in, k) == in.args[k] = "rm" /\ \E i \in DOMAIN in.args : i + 1 = k /\ in.args[i] = "git"
AddContent == "x-addcontent"
Says(in, word) == \E i \in DOMAIN in.args : in.args[i] = word
Told ==
    [powershell |-> {"remove-item", "clear-content", "rm", "del"},
     pwsh |-> {"remove-item", "clear-content", "rm", "del"},
     cmd |-> {"del", "erase", "rd", "rmdir"},
     bash |-> {"rm", "unlink", "rmdir", "truncate"}, sh |-> {"rm", "unlink", "rmdir", "truncate"},
     node |-> {"unlinksync", "unlink", "rmsync", "rm", "rmdirsync", "rmdir", "truncatesync", "truncate"},
     python |-> {"os.remove", "os.unlink", "os.rmdir", "shutil.rmtree", "truncate"},
     py |-> {"os.remove", "os.unlink", "os.rmdir", "shutil.rmtree", "truncate"},
     robocopy |-> {"/mir", "/purge"}]
InspectShell(in) ==
    \/ in.program = "git" /\ InspectGit(in)
    \/ in.program \in Deleters
    \/ /\ in.program \in DOMAIN Told
       /\ \E k \in DOMAIN in.args :
             in.args[k] \in Told[in.program] /\ (in.program \in PowerShells => ~GitRm(in, k))
    \/ in.program \in PowerShells /\ Says(in, "set-content") /\ ~Says(in, AddContent)

(* inspectDestructiveOperation; a dry run never is.                        *)
AlwaysDestructive ==
    {"delete_file", "git_worktree_spawn", "codex_run", "mcp_call", "plugin_remove", "hook_remove"}
OpaqueActions ==
    [dom_cdp |-> {"click", "evaluate"}, web_fetch |-> {"DELETE"}, scheduler |-> {"delete"},
     office |-> {"write", "replace", "save_as"}, window |-> {"close"},
     accessibility |-> {"click", "menu_select", "select_item", "close_window"},
     input_event |-> {"type_text", "paste_text", "press_key", "hotkey", "click", "double_click",
                      "right_click", "drag", "button_down", "button_up", "sequence"},
     ui_target_action |-> {"click", "set_value", "select_item", "menu_select"},
     write_file |-> {"empty"}, apply_patch |-> {"empty"}]
Programs == {"shell", "wsl_exec", "process_start"}
Destructive(name, in) ==
    /\ ~in.dry
    /\ \/ name \in AlwaysDestructive
       \/ name = "git" /\ InspectGit(in)
       \/ name \in Programs /\ in.runs /\ InspectShell(in)
       \/ name \in DOMAIN OpaqueActions /\ in.words \intersect OpaqueActions[name] # {}

(* What README.md:98-102 says is confirmed, of the commands: git's         *)
(* subcommand is the first word that is neither an option nor the value of *)
(* one.  The policy overlooks it behind such a value, and what PowerShell  *)
(* is told of git rm or of -addcontent; git in any other interpreter is    *)
(* not looked for at all, here neither.                                    *)
ValueOptions == {"-C", "-c", "--git-dir", "--work-tree"}
ValueAt(in, k) == \E i \in DOMAIN in.args : i + 1 = k /\ in.args[i] \in ValueOptions
Subcommand(in, k) ==
    /\ in.args[k] \notin in.dashed /\ ~ValueAt(in, k)
    /\ \A i \in Undashed(in) : i < k => ValueAt(in, i)
GitDestroys(in) == \E k \in DOMAIN in.args : Subcommand(in, k) /\ Discards(in, k)
CommandDestroys(in) ==
    \/ in.program = "git" /\ GitDestroys(in)
    \/ in.program \in Deleters
    \/ in.program \in DOMAIN Told /\ \E k \in DOMAIN in.args : in.args[k] \in Told[in.program]
    \/ in.program \in PowerShells /\ Says(in, "set-content")
Overlooked(in) ==
    \/ \E k \in DOMAIN in.args : Subcommand(in, k) /\ ~First(in, k)
    \/ in.program \in PowerShells /\ (Says(in, AddContent) \/ \E k \in DOMAIN in.args : GitRm(in, k))
Claimed(name, in) ==
    /\ ~in.dry /\ ~Overlooked(in)
    /\ (name = "git" /\ GitDestroys(in)) \/ (name \in Programs /\ in.runs /\ CommandDestroys(in))
PolicyNames == AlwaysDestructive \union {"git"} \union Programs \union DOMAIN OpaqueActions

-----------------------------------------------------------------------------
(* The profiles and DefaultPermissionEngine.decide.                        *)
Cautious == [READ |-> "ALLOW", WRITE |-> "ASK", EXECUTE |-> "ASK", DANGEROUS |-> "DENY"]
Profiles ==
    [safe |-> Cautious, custom |-> Cautious,
     balanced |-> [READ |-> "ALLOW", WRITE |-> "ALLOW", EXECUTE |-> "ALLOW", DANGEROUS |-> "ASK"],
     full |-> [READ |-> "ALLOW", WRITE |-> "ALLOW", EXECUTE |-> "ALLOW", DANGEROUS |-> "ALLOW"]]
HardBlocked ==
    {"arbitrary_elevation", "delete_outside_workspace", "delete_workspace_root", "disk_format",
     "kill_unowned_process", "registry_delete", "system_reboot", "system_shutdown"}
Decide(profile, action, level, hint) ==
    IF hint /\ action \in HardBlocked THEN "DENY" ELSE Profiles[profile][level]

(* CommandPolicy.decide, which the process service asks once more; no      *)
(* confirmation reaches it.                                                *)
ShellHosts == {"bash", "cmd", "powershell", "pwsh", "sh"}
ProjectPrograms == {"bun", "corepack", "git", "node", "npm", "npx", "pnpm", "rg", "yarn"}
CommandDecision(profile, program, source, unrestricted) ==
    CASE ~unrestricted /\ program \in ShellHosts -> "DENY"
      [] program \in Deleters \union {"remove-item"} -> "ASK"
      [] source = "project" /\ program \notin ProjectPrograms -> "DENY"
      [] source = "client" /\ program \notin ProjectPrograms /\ profile # "full" -> "ASK"
      [] OTHER -> Profiles[profile].EXECUTE

-----------------------------------------------------------------------------
(* The policies speak of the tools there are: a name finds one tool, each  *)
(* name the destructive policy knows is a tool's, and none of these is     *)
(* ever run beside other calls of a batch or allowed by the safe profile   *)
(* without a question (README.md:91).                                      *)
CatalogSound ==
    /\ \A i, j \in DOMAIN Families : \A t \in Families[i], u \in Families[j] :
          t.name = u.name => i = j /\ t = u
    /\ PolicyNames \subseteq ToolNames
    /\ \A n \in PolicyNames :
        ~ParallelSafe(Catalog[n]) /\ Decide("safe", n, Catalog[n].level, Catalog[n].hint) # "ALLOW"
=============================================================================
