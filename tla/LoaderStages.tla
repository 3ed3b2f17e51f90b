---------------------------- MODULE LoaderStages ----------------------------
(***************************************************************************)
(* The observation of a game start is a walk along a fixed line of         *)
(* execution stops.  A stage is a group of stops with a handler of its     *)
(* own; a permit (a spec pointer of run_impl) opens it.  Here is, for each *)
(* stage, what the handler can refuse at each stop, what is checked before *)
(* its first stop is armed, and the reason a run that ends there reports.  *)
(* Each check reads registers or memory of the stopped debuggee, so a      *)
(* refusal is an input of the model; checks that depend on the observer's  *)
(* own state are in LoaderObservation.                                     *)
(***************************************************************************)
EXTENDS Integers, Sequences, FiniteSets

\* The line up to the return of the ASI load, and its two continuations.
LoadLine == <<"entry", "proxy", "startup", "codec", "binding", "asi_call", "asi_return">>
BootstrapLine == <<"bootstrap">>
GameLine ==
  <<"startup_return", "crt", "application", "platform", "suppression", "instance",
    "dispatch", "routing", "prelude", "manager", "seh", "lock", "acquire", "query",
    "copy", "completion", "ready", "tables", "disk", "allocation", "channels">>

LateStages == {GameLine[i] : i \in DOMAIN GameLine}
Stages == {LoadLine[i] : i \in DOMAIN LoadLine} \cup {"bootstrap"} \cup LateStages

\* What a run may be asked for: nothing but the loader, or the last stage of
\* its line.  A run asked for "asi_call" does not exist; "frame" is the
\* bootstrap run with frame samples.
Goals == {"loader", "frame"} \cup (Stages \ {"asi_call"})

Index(line, s) == CHOOSE i \in DOMAIN line : line[i] = s

\* The stages a goal opens, in order.
Lines ==
  [goal \in Goals |->
     IF goal = "loader" THEN <<>>
     ELSE IF \E i \in DOMAIN LoadLine : LoadLine[i] = goal
          THEN SubSeq(LoadLine, 1, Index(LoadLine, goal))
     ELSE IF goal \in {"bootstrap", "frame"} THEN LoadLine \o BootstrapLine
     ELSE LoadLine \o SubSeq(GameLine, 1, Index(GameLine, goal))]
Line(goal) == Lines[goal]

\* Where a stage comes among all of them: the bootstrap and the game's own
\* start are never on one line.
Rank == [s \in Stages |-> Index(LoadLine \o BootstrapLine \o GameLine, s)]

Permits == [goal \in Goals |-> {Lines[goal][i] : i \in DOMAIN Lines[goal]}]
Permitted(goal) == Permits[goal]

\* How many stops a stage has.
Stops(s) ==
  CASE s \in {"entry", "proxy", "startup", "codec", "binding", "asi_call", "asi_return",
              "platform", "suppression"} -> 1
    [] s \in {"crt", "manager", "lock", "tables"} -> 2
    [] s \in {"startup_return", "dispatch", "seh"} -> 3
    [] s \in {"instance", "routing", "disk"} -> 4
    [] s \in {"application", "prelude", "acquire", "copy"} -> 5
    [] s = "completion" -> 6
    [] s = "query" -> 7
    [] s = "bootstrap" -> 8
    [] s \in {"ready", "channels"} -> 9
    [] s = "allocation" -> 10

\* The stops that may follow stop k of a stage: the CRT heap is in mode 1 or 3,
\* and mode 1 never reaches the threshold branch.
NextStops(s, k) == IF s = "allocation" /\ k = 3 THEN {4, 5} ELSE {k + 1}

\* The reason of a run whose goal is this stage and whose checks all held.
Success(goal) ==
  CASE goal = "loader" -> {"loader_breakpoint_candidate"}
    [] goal = "entry" -> {"entry_boundary_reached", "entry_boundary_modified"}
    [] goal = "proxy" -> {"proxy_return_verified"}
    [] goal = "startup" -> {"startup_call_verified"}
    [] goal = "codec" -> {"codec_return_verified"}
    [] goal = "binding" -> {"codec_bindings_verified"}
    [] goal = "asi_return" -> {"asi_return_verified"}
    [] goal = "bootstrap" -> {"bootstrap_lifecycle_verified", "bootstrap_lifecycle_host_rejected"}
    [] goal = "frame" -> {"frame_target_samples_verified", "bootstrap_lifecycle_host_rejected"}
    [] goal = "startup_return" -> {"startup_return_verified"}
    [] goal = "crt" -> {"crt_initializer_boundary_verified"}
    [] goal = "application" -> {"application_entry_verified"}
    [] goal = "platform" -> {"platform_startup_boundary_verified"}
    [] goal = "suppression" -> {"platform_suppression_verified"}
    [] goal = "instance" -> {"instance_startup_verified"}
    [] goal = "dispatch" -> {"event_dispatch_boundary_verified"}
    [] goal = "routing" -> {"application_routing_boundary_verified"}
    [] goal = "prelude" -> {"game_prelude_verified"}
    [] goal = "manager" -> {"file_manager_entry_verified"}
    [] goal = "seh" -> {"cwd_seh_verified"}
    [] goal = "lock" -> {"cwd_lock_verified"}
    [] goal = "acquire" -> {"cwd_acquire_verified"}
    [] goal = "query" -> {"cwd_query_verified"}
    [] goal = "copy" -> {"cwd_copy_verified"}
    [] goal = "completion" -> {"cwd_return_verified"}
    [] goal = "ready" -> {"file_manager_ready_verified"}
    [] goal = "tables" -> {"cd_stream_tables_verified"}
    [] goal = "disk" -> {"cd_stream_disk_verified"}
    [] goal = "allocation" -> {"cd_stream_allocation_verified"}
    [] goal = "channels" -> {"cd_stream_channels_verified"}

-----------------------------------------------------------------------------
\* What each handler can refuse at stop k.
At(condition, reasons) == IF condition THEN reasons ELSE {}

entry_checks(k) == {"entry_bytes_unreadable"}

proxy_checks(k) ==
  {"proxy_return_shape", "proxy_return_entry_unreadable", "proxy_entry_not_restored",
   "proxy_iat_unreadable", "proxy_iat_mismatch"}

startup_checks(k) ==
  {"startup_proxy_shape", "startup_iat_drift", "startup_target_unreadable",
   "startup_target_drift", "startup_stack_region", "startup_stack_read",
   "startup_callsite_range", "startup_callsite_read", "startup_callsite_shape",
   "startup_argument_region", "startup_sample_unreadable"}

codec_checks(k) == {"codec_return_shape", "startup_iat_drift", "codec_load_failed"}

binding_checks(k) ==
  {"binding_return_shape", "binding_slot_unreadable", "binding_slot_mismatch"}

asi_call_checks(k) == {"asi_call_shape", "asi_path_unreadable", "asi_path_mismatch"}

asi_return_checks(k) == {"asi_return_shape", "asi_stack_mismatch", "asi_load_failed"}

bootstrap_checks(k) ==
  {"bootstrap_return_shape", "bootstrap_calling_convention", "bootstrap_output_unreadable",
   "bootstrap_output_overrun", "bootstrap_call_failed", "bootstrap_status_mismatch"}

startup_return_checks(k) ==
  {"startup_return_shape"}
  \cup At(k = 1, {"startup_return_arguments_read", "startup_return_arguments",
                  "startup_return_image_precondition"})
  \cup At(k = 2, {"startup_return_protect_failed", "startup_return_protect_result",
                  "startup_return_protection_mismatch"})
  \cup At(k = 3, {"startup_return_calling_convention", "startup_return_callsite_read",
                  "startup_return_callsite", "startup_return_info", "startup_return_frame_drift"})

crt_checks(k) ==
  {"crt_loader_shape", "crt_shape_drift"}
  \cup At(k = 1, {"crt_io_calling_convention", "crt_io_failed"})
  \cup At(k = 2, {"crt_initializer_stack", "crt_frame_drift"})

application_checks(k) ==
  {"application_shape_drift"}
  \cup At(k = 1, {"application_initializer_abi", "application_initializer_failed"})
  \cup At(k = 2, {"application_second_argument"})
  \cup At(k = 3, {"application_second_abi", "application_second_info"})
  \cup At(k = 4, {"application_arguments", "application_command_line"})
  \cup At(k = 5, {"application_entry_stack"})

platform_checks(k) ==
  {"platform_shape_drift", "platform_stack_or_registers", "platform_argument_read",
   "platform_arguments"}

suppression_checks(k) ==
  {"suppression_return_read_failed", "suppression_return_drift", "suppression_state_drift"}

instance_checks(k) ==
  {"instance_shape_drift", "instance_registers"}
  \cup At(k = 1, {"instance_arguments"})
  \cup At(k = 2, {"instance_create_abi", "instance_create_failed"})
  \cup At(k = 3, {"instance_getter_abi", "instance_existing_detected",
                  "instance_ambiguous_last_error"})
  \cup At(k = 4, {"instance_return_abi", "instance_stack_drift"})
  \cup At(k \in {2, 4}, {"instance_event_identity"})

dispatch_checks(k) ==
  {"event_dispatch_shape_drift", "event_dispatch_frame", "event_dispatch_caller_drift",
   "event_dispatch_instance_identity"}

routing_checks(k) ==
  {"application_routing_shape_drift", "application_routing_frame",
   "application_routing_caller_drift", "application_routing_instance_identity"}

prelude_checks(k) ==
  {"game_prelude_shape_drift", "game_prelude_frame", "game_prelude_caller_drift",
   "game_prelude_flags_drift", "game_prelude_instance_identity"}

manager_checks(k) ==
  {"file_manager_shape_drift", "file_manager_frame", "file_manager_caller_drift",
   "file_manager_buffer_drift", "file_manager_localisation_drift",
   "file_manager_instance_identity"}

seh_checks(k) ==
  {"cwd_seh_shape_drift", "cwd_seh_frame", "cwd_seh_memory_drift",
   "cwd_seh_prior_record_drift", "cwd_seh_caller_drift", "cwd_seh_buffer_drift",
   "cwd_seh_localisation_drift", "cwd_seh_instance_identity"}

lock_checks(k) ==
  {"cwd_lock_shape_drift", "cwd_lock_slot_drift", "cwd_lock_frame", "cwd_lock_stack_drift",
   "cwd_lock_seh_drift", "cwd_lock_prior_record_drift", "cwd_lock_caller_drift",
   "cwd_lock_buffer_drift", "cwd_lock_localisation_drift", "cwd_lock_instance_identity"}

acquire_checks(k) ==
  {"cwd_acquire_shape_drift", "cwd_acquire_slot_drift", "cwd_acquire_frame",
   "cwd_acquire_object_drift", "cwd_acquire_stack_drift", "cwd_acquire_seh_drift",
   "cwd_acquire_prior_record_drift", "cwd_acquire_caller_drift", "cwd_acquire_buffer_drift",
   "cwd_acquire_localisation_drift", "cwd_acquire_instance_identity"}
  \cup At(k \in {2, 3}, {"cwd_acquire_arguments"})

query_checks(k) ==
  {"cwd_query_shape_drift", "cwd_query_frame", "cwd_query_stack_drift",
   "cwd_query_seh_drift", "cwd_query_lock_drift", "cwd_query_cookie_drift",
   "cwd_query_caller_drift", "cwd_query_outer_buffer_drift", "cwd_query_instance_identity"}
  \cup At(k >= 3, {"cwd_query_helper_stack"})
  \cup At(k < 7, {"cwd_query_last_error_drift"})
  \cup At(k \in {5, 6}, {"cwd_query_buffer_bounds", "cwd_query_arguments", "cwd_query_guard_read"})
  \cup At(k \in {6, 7}, {"cwd_query_guard_drift"})
  \cup At(k = 7, {"cwd_query_buffer_read", "cwd_query_directory_failed",
                  "cwd_query_directory_truncated", "cwd_query_directory_termination",
                  "cwd_query_directory_encoding", "cwd_query_directory_mismatch",
                  "cwd_query_suffix_capacity"})

copy_checks(k) ==
  {"cwd_copy_shape_drift", "cwd_copy_frame", "cwd_copy_stack_drift", "cwd_copy_seh_drift",
   "cwd_copy_lock_drift", "cwd_copy_cookie_drift", "cwd_copy_caller_drift",
   "cwd_copy_last_error_drift", "cwd_copy_source_drift", "cwd_copy_guard_drift",
   "cwd_copy_destination_drift", "cwd_copy_localisation_drift", "cwd_copy_instance_identity"}
  \cup At(k >= 3, {"cwd_copy_arguments"})

completion_checks(k) ==
  {"cwd_return_shape_drift", "cwd_return_frame", "cwd_return_stack_drift",
   "cwd_return_seh_drift", "cwd_return_lock_drift", "cwd_return_cookie_drift",
   "cwd_return_caller_drift", "cwd_return_last_error_drift", "cwd_return_source_drift",
   "cwd_return_guard_drift", "cwd_return_destination_drift", "cwd_return_localisation_drift",
   "cwd_return_instance_identity", "cwd_return_helper_arguments"}

ready_checks(k) ==
  {"file_manager_ready_shape_drift", "file_manager_ready_frame",
   "file_manager_ready_lock_drift", "file_manager_ready_seh_drift",
   "file_manager_ready_prior_record_drift", "file_manager_ready_caller_drift",
   "file_manager_ready_buffer_drift", "file_manager_ready_last_error_drift",
   "file_manager_ready_localisation_drift", "file_manager_ready_instance_identity"}
  \cup At(k < 5, {"file_manager_ready_wrapper_state"})
  \cup At(k < 9, {"file_manager_ready_arguments"})

tables_checks(k) ==
  {"cd_stream_tables_shape_drift", "cd_stream_tables_frame", "cd_stream_tables_memory_drift",
   "cd_stream_tables_arguments", "cd_stream_tables_caller_drift",
   "cd_stream_tables_parent_drift"}

disk_checks(k) ==
  {"cd_stream_disk_shape_drift", "cd_stream_disk_frame", "cd_stream_disk_arguments",
   "cd_stream_disk_globals_drift", "cd_stream_disk_parent_drift"}
  \cup At(k = 3, {"cd_stream_disk_query_failed", "cd_stream_disk_geometry_rejected"})

allocation_checks(k) ==
  {"cd_stream_allocation_shape_drift", "cd_stream_allocation_globals_drift",
   "cd_stream_allocation_frame", "cd_stream_allocation_arguments",
   "cd_stream_allocation_seh_drift", "cd_stream_allocation_parent_drift"}
  \cup At(k = 3, {"cd_stream_allocation_heap_branch"})
  \cup At(k = 4, {"cd_stream_allocation_threshold_branch"})
  \cup At(k = 7, {"cd_stream_allocation_failed", "cd_stream_allocation_block_rejected",
                  "cd_stream_allocation_block_unreadable", "cd_stream_allocation_error_read"})
  \cup At(k >= 8, {"cd_stream_allocation_content_drift"})

channels_checks(k) ==
  {"cd_stream_channels_shape_drift", "cd_stream_channels_frame",
   "cd_stream_channels_arguments", "cd_stream_channels_tables_drift",
   "cd_stream_channels_pointer_unreadable", "cd_stream_channels_pointer_drift",
   "cd_stream_channels_seh_drift", "cd_stream_channels_parent_drift",
   "cd_stream_channels_allocation_drift"}
  \cup At(k = 4, {"cd_stream_channels_error_not_reset"})
  \cup At(k = 8, {"cd_stream_channels_error_unreadable", "cd_stream_channels_allocation_failed",
                  "cd_stream_channels_block_rejected"})
  \cup At(k >= 8, {"cd_stream_channels_block_unreadable", "cd_stream_channels_nonzero_block"})

\* What the handler of stage s can refuse at its stop k.
StopChecks(s, k) ==
  CASE s = "entry" -> entry_checks(k)
    [] s = "proxy" -> proxy_checks(k)
    [] s = "startup" -> startup_checks(k)
    [] s = "codec" -> codec_checks(k)
    [] s = "binding" -> binding_checks(k)
    [] s = "asi_call" -> asi_call_checks(k)
    [] s = "asi_return" -> asi_return_checks(k)
    [] s = "bootstrap" -> bootstrap_checks(k)
    [] s = "startup_return" -> startup_return_checks(k)
    [] s = "crt" -> crt_checks(k)
    [] s = "application" -> application_checks(k)
    [] s = "platform" -> platform_checks(k)
    [] s = "suppression" -> suppression_checks(k)
    [] s = "instance" -> instance_checks(k)
    [] s = "dispatch" -> dispatch_checks(k)
    [] s = "routing" -> routing_checks(k)
    [] s = "prelude" -> prelude_checks(k)
    [] s = "manager" -> manager_checks(k)
    [] s = "seh" -> seh_checks(k)
    [] s = "lock" -> lock_checks(k)
    [] s = "acquire" -> acquire_checks(k)
    [] s = "query" -> query_checks(k)
    [] s = "copy" -> copy_checks(k)
    [] s = "completion" -> completion_checks(k)
    [] s = "ready" -> ready_checks(k)
    [] s = "tables" -> tables_checks(k)
    [] s = "disk" -> disk_checks(k)
    [] s = "allocation" -> allocation_checks(k)
    [] s = "channels" -> channels_checks(k)

-----------------------------------------------------------------------------
\* What is checked before the first stop of a stage is armed.
Preconditions(s, goal) ==
  CASE s = "proxy" -> {"proxy_entry_shape", "proxy_entry_redirect", "proxy_iat_unreadable",
                       "proxy_iat_before_not_system"}
    [] s = "startup" -> {"startup_target_unreadable"}
    [] s = "codec" -> {"codec_call_shape"}
    [] s = "binding" -> {"binding_precondition_shape", "binding_precondition_read",
                         "binding_preexisting_slot"}
    [] s = "asi_call" -> {"asi_precondition_shape"}
    [] s = "asi_return" -> {}
    [] s = "bootstrap" ->
         {"bootstrap_export_shape"} \cup At(goal = "frame", {"frame_asi_sample_rejected"})
    [] s = "startup_return" -> {"startup_return_precondition_shape",
                                "startup_return_frame_precondition"}
    [] s = "crt" -> {"crt_precondition_shape", "crt_stack_precondition"}
    [] s = "application" -> {"application_precondition_shape"}
    [] s = "platform" -> {"platform_precondition_shape"}
    [] s = "suppression" -> {"suppression_snapshot_failed", "suppression_last_error_identity"}
    [] s = "instance" -> {"instance_precondition_shape"}
    [] s = "dispatch" -> {"event_dispatch_precondition_shape"}
    [] s = "routing" -> {"application_routing_precondition_shape"}
    [] s = "prelude" -> {"game_prelude_precondition_shape", "game_prelude_precondition_stack",
                         "game_prelude_precondition_flags"}
    [] s = "manager" -> {"file_manager_precondition_shape", "file_manager_precondition_buffer"}
    [] s = "seh" -> {"cwd_seh_precondition_shape", "cwd_seh_precondition_tib",
                     "cwd_seh_precondition_stack"}
    [] s = "lock" -> {"cwd_lock_precondition_shape", "cwd_lock_precondition_tib",
                      "cwd_lock_precondition_stack", "cwd_lock_precondition_slot"}
    [] s = "acquire" -> {"cwd_acquire_missing_slot", "cwd_acquire_precondition_shape",
                         "cwd_acquire_precondition_object", "cwd_acquire_precondition_stack"}
    [] s = "query" -> {"cwd_query_precondition_shape", "cwd_query_precondition_memory"}
    [] s = "copy" -> {"cwd_copy_precondition_shape"}
    [] s = "completion" -> {"cwd_return_precondition_shape"}
    [] s = "ready" -> {"file_manager_ready_precondition_shape"}
    [] s = "tables" -> {"cd_stream_tables_precondition_shape",
                        "cd_stream_tables_precondition_memory",
                        "cd_stream_tables_precondition_frame"}
    [] s = "disk" -> {"cd_stream_disk_precondition_shape", "cd_stream_disk_precondition_memory"}
    [] s = "allocation" -> {"cd_stream_allocation_precondition_shape",
                            "cd_stream_allocation_request_rejected",
                            "cd_stream_allocation_precondition_stack"}
    [] s = "channels" -> {"cd_stream_channels_precondition_shape",
                          "cd_stream_channels_precondition_state"}
    [] OTHER -> {}

\* Reported when the thread context of a stop cannot be written or read back:
\* a failed write and a register found unchanged have reasons of their own in
\* the early stages.
ArmFailures(s) ==
  CASE s = "proxy" -> {"proxy_breakpoint_write_failed", "proxy_breakpoint_arm_failed"}
    [] s = "startup" -> {"startup_breakpoint_write_failed", "startup_breakpoint_arm_failed"}
    [] s = "codec" -> {"codec_breakpoint_write_failed", "codec_breakpoint_arm_failed"}
    [] s = "binding" -> {"binding_breakpoint_write_failed", "binding_breakpoint_arm_failed"}
    [] s \in {"asi_call", "asi_return"} -> {"asi_breakpoint_arm_failed"}
    [] s = "bootstrap" -> {"bootstrap_call_arm_failed"}
    [] s = "startup_return" -> {"startup_return_arm_failed"}
    [] s = "crt" -> {"crt_arm_failed"}
    [] s = "application" -> {"application_arm_failed"}
    [] s = "platform" -> {"platform_arm_failed"}
    [] s = "suppression" -> {"suppression_context_failed"}
    [] s = "instance" -> {"instance_arm_failed"}
    [] s = "dispatch" -> {"event_dispatch_arm_failed"}
    [] s = "routing" -> {"application_routing_arm_failed"}
    [] s = "prelude" -> {"game_prelude_arm_failed"}
    [] s = "manager" -> {"file_manager_arm_failed"}
    [] s = "seh" -> {"cwd_seh_arm_failed"}
    [] s = "lock" -> {"cwd_lock_arm_failed"}
    [] s = "acquire" -> {"cwd_acquire_arm_failed"}
    [] s = "query" -> {"cwd_query_arm_failed"}
    [] s = "copy" -> {"cwd_copy_arm_failed"}
    [] s = "completion" -> {"cwd_return_arm_failed"}
    [] s = "ready" -> {"file_manager_ready_arm_failed"}
    [] s = "tables" -> {"cd_stream_tables_arm_failed"}
    [] s = "disk" -> {"cd_stream_disk_arm_failed"}
    [] s = "allocation" -> {"cd_stream_allocation_arm_failed"}
    [] s = "channels" -> {"cd_stream_channels_arm_failed"}
    [] OTHER -> {}

\* What is checked when the stage was the last one of the run.
ClosingChecks(s, goal) ==
  IF s = "suppression" THEN {"suppression_restore_failed"}
  ELSE IF s = "bootstrap" /\ goal = "frame" THEN {"frame_terminal_sample_rejected"}
  ELSE {}

-----------------------------------------------------------------------------
\* Why a permit is refused before the run starts: by itself, or against the
\* permit it builds on.
SpecRefusals(s) ==
  CASE s = "proxy" -> {"proxy_invalid_spec"}
    [] s = "startup" -> {"startup_invalid_spec", "startup_invalid_sample",
                         "startup_sample_overlap", "startup_sample_precondition"}
    [] s = "codec" -> {"codec_invalid_spec", "codec_invalid_pin", "codec_duplicate_pin"}
    [] s = "binding" -> {"binding_invalid_spec", "binding_invalid_slot", "binding_duplicate_slot"}
    [] s = "asi_call" -> {"asi_invalid_spec", "asi_invalid_path"}
    [] s = "bootstrap" -> {"bootstrap_invalid_spec", "frame_invalid_spec"}
    [] s = "startup_return" -> {"startup_return_invalid_spec"}
    [] s = "crt" -> {"crt_invalid_spec"}
    [] s = "application" -> {"application_invalid_spec"}
    [] s = "platform" -> {"platform_invalid_spec"}
    [] s = "suppression" -> {"suppression_invalid_spec"}
    [] s = "instance" -> {"instance_invalid_spec"}
    [] s = "dispatch" -> {"event_dispatch_invalid_spec"}
    [] s = "routing" -> {"application_routing_invalid_spec"}
    [] s = "prelude" -> {"game_prelude_invalid_spec"}
    [] s = "manager" -> {"file_manager_invalid_spec"}
    [] s = "seh" -> {"cwd_seh_invalid_spec"}
    [] s = "lock" -> {"cwd_lock_invalid_spec"}
    [] s = "acquire" -> {"cwd_acquire_invalid_spec"}
    [] s = "query" -> {"cwd_query_invalid_spec"}
    [] s = "copy" -> {"cwd_copy_invalid_spec"}
    [] s = "completion" -> {"cwd_return_invalid_spec"}
    [] s = "ready" -> {"file_manager_ready_invalid_spec"}
    [] s = "tables" -> {"cd_stream_tables_invalid_spec"}
    [] s = "disk" -> {"cd_stream_disk_invalid_spec"}
    [] s = "allocation" -> {"cd_stream_allocation_invalid_spec"}
    [] s = "channels" -> {"cd_stream_channels_invalid_spec"}
    [] OTHER -> {}

\* The entry point must read as expected and the debug registers be free.
EntryRefusals ==
  {"entry_precondition_bytes", "entry_precondition_region", "entry_context_read_failed",
   "entry_debug_registers_busy", "entry_preinitialization_drift",
   "entry_context_write_failed", "entry_breakpoint_arm_failed"}

PreflightRefusals(goal) ==
  {"loader_invalid_limits", "loader_invalid_pin", "loader_child_identity_or_state"}
  \cup (UNION {SpecRefusals(s) : s \in Permitted(goal)})
  \cup (IF "entry" \in Permitted(goal) THEN EntryRefusals ELSE {})
  \cup (IF goal = "frame" THEN {"frame_create_sample_rejected"} ELSE {})
=============================================================================
