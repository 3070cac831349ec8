----------------------------- MODULE MCService -----------------------------
(***************************************************************************)
(* A service whose configuration file goes through what an edit may do:    *)
(* a uri changes, a forward moves to another address, two forwards share a *)
(* name or an address, kinds of forwards come and go.                      *)
(***************************************************************************)
EXTENDS Service, TLC

CONSTANTS a, t, w, v, u1, u2, p1, p2

Loc(n, scheme, at) == [name |-> n, scheme |-> scheme, at |-> at]
Alias  == Loc(a, "alias", a)
Tcp    == Loc(t, "tcp", p1)
Rdp    == Loc(t, "rdp", AnyPort)
Socks  == Loc(v, "socks", p2)
Proxy  == Loc(v, "proxy", p2)
Hosted == Loc(w, "ws", v)
Taken  == Loc(w, "ws", a)
Web    == Loc(w, "web", w)

Other  == Loc(v, "other", v)

MCLocs == {Alias, Tcp, Rdp, Socks, Proxy, Hosted, Taken, Web, Other}
\* What an edit may do: an alias gets another uri, a tcp forward becomes a remote desktop
\* under its name, a socks forward a proxy (or back) on its address, a web forward gets
\* another host, which is the name of a forward beside it, or of an alias that comes later.
MCConfigs ==
    { Alias :> u1 @@ Tcp :> u1,
      Alias :> u2 @@ Rdp :> u1,
      Socks :> u1 @@ Web :> u1,
      Proxy :> u2 @@ Hosted :> u2,
      Taken :> u1 @@ Other :> u1 }
MCDialLists == {<<a, w>>}
MCFound == {<<w>>}
\* A uri of a web forward may be a list; an alias is not split.
MCListed == u1 :> <<u1>> @@ u2 :> <<a, u1>>
=============================================================================
