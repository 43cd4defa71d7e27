--------------------------- MODULE MCInterceptors ---------------------------
(* Instances of Interceptors for TLC. *)
EXTENDS Interceptors

\* The plugin and a rule behind it, which a request that the plugin transforms
\* does not reach.
MCPipes == [request |-> <<"wasm", "rbac">>, response |-> <<"wasm", "cel">>]
=============================================================================
