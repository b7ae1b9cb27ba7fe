SPECIFICATION Spec
CONSTANTS
    admin_user = admin_user
    bob = bob
    w1 = w1
    w2 = w2
    Workers <- MCWorkers
    Usernames <- MCUsernames
    Demo <- MCDemo
    DemoRole <- MCDemoRole
    Roles <- MCRoles
    MaxFaults = 0
PROPERTY FreshDatabaseBoots
CHECK_DEADLOCK FALSE
