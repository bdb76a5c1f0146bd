\* The administrator's own roles, changed by three requests of which one revokes
\* what another has granted and not committed.
SPECIFICATION UsersSpec
CONSTANTS
    Users = {u1}
    Analyst = analyst
    Admin = admin
    Requests = {q1, q2, q3}
    MaxRequests = 3
    MaxChanges = 3
PROPERTIES AuditedRevocationRemoves
CHECK_DEADLOCK FALSE
