------------------------------ MODULE Options ------------------------------
(***************************************************************************)
(* Options of a transaction (poldek_ts.c 103-198, lib_init.c 695-896): a   *)
(* bit for each and whether it was touched, that is, set by the user.  The *)
(* library has a set of its own and a command one of its own; what is      *)
(* touched goes before the configuration and that before the defaults.     *)
(***************************************************************************)
EXTENDS Conf

(* Options and the names they are configured by, in alphabetical order, in *)
(* which the configuration is applied.                                     *)
Configurable == <<
    [op |-> "aggreedy",       name |-> "aggressive greedy",           default |-> 1],
    [op |-> "eqpkg",          name |-> "choose equivalents manually", default |-> 1],
    [op |-> "confirm_inst",   name |-> "confirm installation",        default |-> 0],
    [op |-> "confirm_uninst", name |-> "confirm removal",             default |-> 1],
    [op |-> "follow",         name |-> "follow",                      default |-> 1],
    [op |-> "greedy",         name |-> "greedy",                      default |-> 1],
    [op |-> "promoteepoch",   name |-> "promoteepoch",                default |-> 0]>>
Confirming == {"confirm_inst", "confirm_uninst", "eqpkg"}
(* The others are on by default, if at all, and only set by the user.      *)
Addon == {"hold", "ignore"}
Other == {"test", "rpmtest", "caplookup", "nodeps", "force", "mercy", "freshen", "justdb", "nofetch", "justfetch", "justprint"}
Mapped == {Configurable[i].op : i \in DOMAIN Configurable} \union Addon
Op == Mapped \union Other

-----------------------------------------------------------------------------
(* poldek_ts_xsetop: greedy is nothing without follow.                     *)
Flip(ts, op, val, touch) ==
    [ts EXCEPT !.on = IF val = 0 THEN @ \ {op} ELSE @ \union {op},
               !.touched = IF touch THEN @ \union {op} ELSE @]
Deepen(deep, val) == IF val = 1 THEN deep + 1 ELSE val
SetOp(ts, op, val, touch) ==
    LET dragged ==
            CASE op = "greedy" ->
                   [IF val > 0 THEN Flip(ts, "follow", 1, touch) ELSE ts
                       EXCEPT !.deep = Deepen(@, val)]
              [] op = "follow" /\ val = 0 -> [Flip(ts, "greedy", 0, touch) EXCEPT !.deep = 0]
              [] OTHER -> ts
    IN  Flip(dragged, op, val, touch)

(* One of the command: promoteepoch is also a global variable and is said  *)
(* to the library, as if the user had set it.                              *)
SetCommandOp(ops, op, val, touch) ==
    [cmd |-> SetOp(ops.cmd, op, val, touch),
     ctx |-> IF op = "promoteepoch" THEN SetOp(ops.ctx, op, val, TRUE) ELSE ops.ctx]

-----------------------------------------------------------------------------
(* poldek_init: the defaults, none of them touched.                        *)
NoOps == [on |-> {}, touched |-> {}, deep |-> 0]
DefaultOps ==
    LET ts == FoldLeft(LAMBDA t, c : SetOp(t, c.op, c.default, FALSE), NoOps, Configurable)
    IN  [ts EXCEPT !.on = @ \union Addon]

(* poldek_ts_init: a command has the values of the library's options.      *)
NewOps(ctx) == [NoOps EXCEPT !.on = ctx.on]

(* poldek__ts_apply_config.                                                *)
BoolOf(opts, c) == IF Has(opts, c.name) THEN IF Get(opts, c.name, "") = "yes" THEN 1 ELSE 0
                   ELSE c.default
(* Mutant: the configuration sets what is touched, too.                    *)
ConfiguredAll(ts, opts) ==
    FoldLeft(LAMBDA t, c : SetOp(t, c.op, BoolOf(opts, c), FALSE), ts, Configurable)
Configured(ts, opts) ==
    LET set == FoldLeft(LAMBDA t, c : IF c.op \in t.touched THEN t
                                      ELSE SetOp(t, c.op, BoolOf(opts, c), FALSE),
                        ts, Configurable)
    IN  IF "greedy" \notin set.on THEN set
        ELSE SetOp(SetOp(set, "aggreedy", BoolOf(opts, Head(Configurable)), FALSE), "follow", 1, FALSE)

(* poldek__ts_apply_poldek_settings: of the library only what is touched.  *)
Applied(ops) ==
    LET set == FoldSet(LAMBDA op, o : SetCommandOp(o, op, IF op \in o.ctx.on THEN 1 ELSE 0, TRUE),
                       ops, (ops.ctx.touched \intersect Mapped) \ ops.cmd.touched)
    IN  IF "greedy" \in set.cmd.on THEN SetCommandOp(set, "follow", 1, TRUE) ELSE set

(* poldek__ts_postconf, by ts_prerun0: before a transaction made before    *)
(* the configuration was known is run.                                     *)
PostConf(ops, conf) ==
    LET set == Applied(ops)
    IN  IF conf = NoConf THEN set
        ELSE LET cmd == Configured(set.cmd, Global(conf))
             IN  [cmd |-> cmd,
                  ctx |-> IF "promoteepoch" \in set.cmd.touched THEN set.ctx
                          ELSE SetOp(set.ctx, "promoteepoch",
                                     IF "promoteepoch" \in cmd.on THEN 1 ELSE 0, TRUE)]
=============================================================================
