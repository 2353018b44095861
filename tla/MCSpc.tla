------------------------------- MODULE MCSpc -------------------------------
(* The projects that spc compiles for TLC: a tree of pages with one missing, *)
(* the same tree whole, a page that is required twice and ends too early, a  *)
(* wrong comment and a page that is not named .csp, and a page that requires *)
(* itself.                                                                   *)
EXTENDS Spc

CONSTANTS pa, pb, pc, pd, pe, inc

Req(file) == [is |-> "require", file |-> file, arg |-> NoArg]
ReqWith(file, arg) == [is |-> "require", file |-> file, arg |-> arg]
Code(words) == [is |-> "code", words |-> words]
Html == [is |-> "html"]
Bad(what) == [is |-> what]

Whole == [f \in {pa, pb, pc, pd, pe} |->
    CASE f = pa -> <<Html, Req(pb), Req(pc)>>
      [] f = pb -> <<Code({"_sqlcon_"}), Req(pd)>>
      [] f = pc -> <<ReqWith(pe, "x"), Code({"qcgires"}), Html>>
      [] f = pd -> <<Code({"_req_", "echo", "qcgisess"})>>
      [] f = pe -> <<Code({"_param_", "_tpool_"})>>]
Lacking == [f \in {pa, pb, pc, pd} |-> Whole[f]]
Shared == [f \in {pa, pb, pc} |->
    CASE f = pa -> <<Req(pb), Req(pc), Code({"qcgires"})>>
      [] f = pb -> <<Req(pc)>>
      [] f = pc -> <<Code({"echo", "qcgisess_init"}), Bad("badhead"), Req(pd)>>]
Mixed == [f \in {pa, pb, pc, inc} |->
    CASE f = pa -> <<ReqWith(pb, "x"), Req(inc), Req(pb)>>
      [] f = pc -> <<Code({}), Bad("badcomment"), Html>>
      [] f \in {pb, inc} -> <<Html>>]
Cyclic == [f \in {pa, pb, pc} |->
    CASE f = pa -> <<Req(pa)>> [] f = pb -> <<Html>> [] f = pc -> <<Req(pb)>>]
MCProjects == {Whole, Lacking, Shared, Mixed, Cyclic}
\* A run without a middle file neither finds nor leaves names.
MCCommands == {c \in [args : {<<>>, <<pa>>, <<pc>>, <<pc, pa>>, <<pb, pc>>, <<pd>>},
                      function : BOOLEAN, middle : BOOLEAN] : c.middle \/ ~c.function}
=============================================================================
