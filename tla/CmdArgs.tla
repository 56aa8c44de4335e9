------------------------------- MODULE CmdArgs -------------------------------
(***************************************************************************)
(* The command line (src/cmdargs.cpp).  It has "options", records of a name*)
(* and a value, and the words that follow them, the "command" to run.  The *)
(* value of a mask is a record: whether it is "valid", and its "bits".     *)
(***************************************************************************)
EXTENDS Checks, Loops

EmptyText == ""

MaskOptions == {"cpu-sensors", "cpu-sockets", "gpu-devices"}

Defaults ==
    [error |-> Fine, idle |-> TRUE, quiet |-> FALSE, output |-> EmptyText, config |-> EmptyText,
     log |-> EmptyText, exec |-> EmptyText, dump |-> EmptyText,
     masks |-> [m \in MaskOptions |-> {}]]

(* One turn of the loop over getopt_long(), which ends at the first error. *)
ApplyOption(args, o) ==
    IF args.error # Fine THEN args
    ELSE IF o.name \in MaskOptions THEN
         IF o.value.valid THEN [args EXCEPT !.masks[o.name] = o.value.bits]
         ELSE [args EXCEPT !.error = "invalid_mask"]
    ELSE IF o.name \in {"exec", "dump"} THEN
         IF o.value = EmptyText THEN [args EXCEPT !.error = "empty_option"]
         ELSE [args EXCEPT ![o.name] = o.value]
    ELSE IF o.name \in {"config", "output", "log"} THEN [args EXCEPT ![o.name] = o.value]
    ELSE IF o.name = "quiet" THEN [args EXCEPT !.quiet = TRUE]
    ELSE IF o.name = "idle" THEN [args EXCEPT !.idle = TRUE]
    ELSE IF o.name = "no-idle" THEN [args EXCEPT !.idle = FALSE]
    ELSE [args EXCEPT !.error = "usage"]

(* An empty name stands for the standard streams.                          *)
Opens(name, openable) == name = EmptyText \/ name \in openable

ParsedOptions(options) == FoldLeft(ApplyOption, Defaults, options)

ArgumentsError(argv, openable) ==
    LET args == ParsedOptions(argv.options) IN
    FirstError(<<args.error,
                 Check(argv.command = <<>>, "missing_target"),
                 Check(args.quiet /\ args.log # EmptyText, "quiet_and_log"),
                 Check(~Opens(args.output, openable), "output_file"),
                 Check(~Opens(args.config, openable), "config_file"),
                 Check(~Opens(args.dump, openable), "dump_file"),
                 Check(args.exec # EmptyText /\ args.exec \notin ToSet(argv.command), "invalid_exec")>>)

(* The executable to evaluate, and the command that runs it.               *)
Arguments(argv) ==
    LET args == ParsedOptions(argv.options) IN
    [idle |-> args.idle, masks |-> args.masks, command |-> argv.command,
     target |-> IF args.exec = EmptyText THEN argv.command[1] ELSE args.exec]

same_target(args) == args.target = args.command[1]
=============================================================================
