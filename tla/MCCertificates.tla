-------------------------- MODULE MCCertificates ---------------------------
(* The two services the scripts treat specially, and one they do not.      *)
EXTENDS Certificates

MCServices == {"elasticsearch", "kibana", "logstash"}
MCOrder == <<"elasticsearch", "kibana", "logstash">>
=============================================================================
