-------------------------------- MODULE MCApp --------------------------------
(* App for TLC; the cfg files give the bounds.                                *)
EXTENDS App

\* Two Builds of the same source; an image after a Build; a service that is
\* bound before new Pods are asked for; autoscaling turned on, off and on.
MCScripts == {<<"build", "restage">>, <<"build", "image">>,
              <<"image", "bind", "template">>,
              <<"image", "autoscale", "autoscale", "autoscale">>}
==============================================================================
