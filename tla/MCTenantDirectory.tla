--------------------------- MODULE MCTenantDirectory ---------------------------
(* Triples of requests that write and read the same rows and entries.         *)
EXTENDS TenantDirectory, TLC

CONSTANTS r1, r2, r3, t1, t2, i1

Call(op) == [op |-> op, tenant |-> t1, status |-> None, integration |-> None,
             phone |-> FALSE, org |-> FALSE]

Rotate(t) == [Call("rotate") EXCEPT !.tenant = t, !.integration = i1]
Lookup == [Call("lookup") EXCEPT !.tenant = None, !.integration = i1]
Update(status) == [Call("update") EXCEPT !.status = status]
Move(t) == [Call("update") EXCEPT !.tenant = t, !.integration = i1]
Renumber == [Call("update") EXCEPT !.phone = TRUE]
Provision == [Call("provision") EXCEPT !.tenant = None, !.org = TRUE]
Create == [Call("create") EXCEPT !.tenant = None]
CreateAll == [Create EXCEPT !.integration = i1, !.phone = TRUE, !.org = TRUE]

Threes ==
    {<<Rotate(t1), Call("store"), Call("raw")>>,
     <<Rotate(t1), Rotate(t1), Call("masked")>>,
     <<Rotate(t1), Rotate(t2), Lookup>>,
     <<Rotate(t1), Call("delete"), Lookup>>,
     <<Rotate(t1), Update("suspended"), Lookup>>,
     <<Rotate(t1), Move(t2), Lookup>>,
     <<Call("signup"), Renumber, Call("delete")>>,
     <<Update("suspended"), Call("complete"), Call("delete")>>,
     <<Call("store"), Call("delete"), Call("raw")>>,
     <<Call("signup"), Call("signup"), Call("whatsapp")>>,
     <<Call("signup"), Call("configure"), Call("delete")>>,
     <<Call("configure"), Call("delete"), Call("whatsapp")>>,
     <<Call("store"), Call("store"), Call("raw")>>,
     <<Call("signup"), Update("suspended"), Call("complete")>>,
     <<Call("setup"), Call("signup"), Call("whatsapp")>>,
     <<Call("skip"), Call("configure"), Call("whatsapp")>>,
     <<Call("setup"), Call("delete"), Call("skip")>>,
     <<Provision, Provision, Provision>>,
     <<Provision, Provision, [Call("delete") EXCEPT !.tenant = t1]>>,
     <<CreateAll, CreateAll, Lookup>>,
     <<CreateAll, Call("signup"), Renumber>>,
     <<CreateAll, Provision, Lookup>>,
     <<CreateAll, Call("delete"), Lookup>>,
     <<Update("deleted"), Move(t2), Lookup>>,
     <<Provision, Create, [Call("store") EXCEPT !.tenant = t2]>>}

AllPlans == {(r1 :> c[1] @@ r2 :> c[2] @@ r3 :> c[3]) : c \in Threes}

=============================================================================
